---- MODULE Spec2Model ----
(***************************************************************************)
(* A state-machine model of parts of the 2anythings PDF converter:         *)
(*   - converters/retry_manager.py      CircuitBreaker                     *)
(*   - converters/converter_factory.py  ConverterFactory                   *)
(*   - pdf_converter.py                 start_conversion/conversion_thread *)
(*   - pdf_operations.py                page selection and page deletion   *)
(*   - converters/enhanced_ocr_methods.py  batch_process_images            *)
(* Each part has its own specification (SpecBreaker, SpecFactory, ...);    *)
(* the variables of the other parts keep their initial values.             *)
(***************************************************************************)
EXTENDS Integers, Sequences, FiniteSets, TLC

VARIABLES
    \* ---- CircuitBreaker (converters/retry_manager.py) ----
    failure_threshold,   \* self.failure_threshold
    recovery_timeout,    \* self.recovery_timeout
    expected_exception,  \* self.expected_exception (a set of exception kinds)
    failure_count,       \* self.failure_count
    last_failure_time,   \* self.last_failure_time (NoTime for None)
    state,               \* self.state
    lock,                \* self.lock is held (a call is inside the wrapped function)
    now,                 \* time.time()
    cb_call,             \* history: the most recent call() and how it ended
    streak,              \* history: consecutive calls that failed with an expected exception
    anyStreak,           \* history: consecutive calls whose wrapped function raised anything
    \* ---- ConverterFactory (converters/converter_factory.py) ----
    _converters,         \* self._converters: name -> class, in dict (insertion) order
    _metadata,           \* self._metadata: name -> ConverterMetadata, in dict order
    _instances,          \* self._instances: name -> live instance
    loaded_plugins,      \* PluginManager.loaded_plugins: name -> class
    nextId,              \* identity of the next converter object the factory keeps
    got,                 \* history: the most recent get_converter call and its result
    \* ---- main window, batch conversion (pdf_converter.py) ----
    file_path_var,       \* self.file_path_var: the input path ("" when none is chosen)
    output_dir_var,      \* self.output_dir_var: the output directory ("" when none)
    selected_function,   \* self.selected_function: the function picked in the list
    image_format_var,    \* self.image_format_var
    ppt_method_var,      \* self.ppt_method_var
    input_files,         \* base names of the .pdf files found under the input path
    fs,                  \* the files that exist under the output directory
    threads,             \* the conversion worker threads: locals and position
    status_var,          \* self.status_var (the status line)
    progress_var,        \* self.progress_var
    log_text,            \* the last line of the log view
    \* ---- page operations (pdf_operations.py) ----
    disk,                \* the PDF files on disk: path -> sequence of pages
    pdf_path,            \* self.pdf_path ("" when no file is chosen)
    pdf_document,        \* self.pdf_document: the pages of the open document
    page_thumbnails,     \* self.page_thumbnails: the check boxes shown, in list order
    selected_pages,      \* self.selected_pages
    workers,             \* the _generate_thumbnails threads that have not finished
    after_queue,         \* _create_single_thumbnail calls queued with parent.after
    deletion,            \* history: the most recent delete_selected_pages call
    \* ---- EnhancedOCRMethods (converters/enhanced_ocr_methods.py) ----
    batch_size,          \* self.batch_size
    max_workers,         \* self.max_workers
    timeout_per_image,   \* self.timeout_per_image, in clock ticks
    images,              \* the argument of batch_process_images: what each image's OCR does
    ocr_pc,              \* where the caller of batch_process_images is
    batch_start,         \* i, the offset of the batch being processed
    results,             \* results of batch_process_images
    batch_results,       \* results of _process_batch_concurrent, None where unset
    futures,             \* the state of each task of the batch
    elapsed,             \* clock ticks since as_completed was called
    returned,            \* what the batch_process_images call gave its caller
    \* ---- PDFToDocxOCRConverter engines (converters/pdf_to_docx_ocr_converter.py) ----
    paddleocr_available, \* PADDLEOCR_AVAILABLE: the paddleocr package could be imported
    engines,             \* _ocr_engine, _force_cpu_mode, _paddle_ocr, _easy_ocr_reader, _temp_files
    ocr_call,            \* history: the most recent operation on the converter
    lifetime,            \* history: what has happened since construction or cleanup()
    \* ---- CacheManager (converters/cache_manager.py) ----
    max_cache_size_mb,   \* self.max_cache_size_mb, in size units
    cache,               \* the cache directory, _memory_cache, _access_times and stats
    cache_call,          \* history: the most recent operation on the cache
    ever_set,            \* history: the keys set has been called with
    \* ---- OCRHealthChecker (converters/ocr_health_checker.py) ----
    max_history,         \* self.max_history
    operation_history,   \* self.operation_history, oldest first
    monitoring_active,   \* self.monitoring_active
    total_operations,    \* self.total_operations
    successful_operations, \* self.successful_operations
    failed_operations,   \* self.failed_operations
    total_response_time, \* self.total_response_time, in seconds
    health_report,       \* history: what the latest check_ocr_health returned
    recorded,            \* history: every operation recorded since the last reset
    slow_operations,     \* history: how many of them were slow
    \* ---- ConfigValidator (config/config_validator.py) ----
    validator_config,    \* the mapping the caller holds
    config_is_fixed,     \* history: it came out of fix_config_issues
    validator_file,      \* the file at config_path
    validate_call,       \* history: the latest validate_gpu_memory_config
    fix_call,            \* history: the latest fix_config_issues
    \* ---- ConfigManager (converters/config_manager.py) ----
    config_file,         \* the content of self.config_file
    _config,             \* self._config
    file_reads,          \* history: how often load_config has read the file
    load_call,           \* history: the latest load_config
    update_call,         \* history: the latest update_config
    \* ---- retry_file_processing (converters/retry_manager.py) ----
    max_retries,         \* the decorator's max_retries
    retry_pc,            \* where the wrapper is
    attempt,             \* the loop variable
    last_exception,      \* last_exception
    current_delay,       \* current_delay, a fraction
    invocations,         \* history: what each invocation of func did, in order
    retry_result,        \* what the wrapper gave its caller
    \* ---- PluginManager (converters/enhancement_plugins.py) ----
    plugin_manager,      \* self.plugins and the three lists of plugins
    process_call,        \* history: the latest process_with_plugins
    \* ---- PluginManager (converters/plugin_manager.py) ----
    plugin_instances,    \* PluginManager.plugin_instances: name -> instance
    unload_call,         \* history: the latest unload_plugin
    \* ---- WordToPPTConverter (word_to_ppt_converter.py) ----
    paragraphs,          \* the paragraphs of the Word document
    ppt_pc,              \* where convert_word_to_ppt is
    content_blocks,      \* the blocks not yet handled by the loop
    slides,              \* ppt.slides: title and content of each slide
    current_slide,       \* current_slide: position in slides, or NoSlide
    current_content,     \* current_content
    current_chars        \* current_chars

breakerVars == <<failure_threshold, recovery_timeout, expected_exception, failure_count,
                 last_failure_time, state, lock, now, cb_call, streak, anyStreak>>

factoryVars == <<_converters, _metadata, _instances, loaded_plugins, nextId, got>>

windowVars == <<file_path_var, output_dir_var, selected_function, image_format_var,
                ppt_method_var, input_files, fs, threads, status_var, progress_var, log_text>>

pageVars == <<disk, pdf_path, pdf_document, page_thumbnails, selected_pages, workers,
              after_queue, deletion>>

ocrVars == <<batch_size, max_workers, timeout_per_image, images, ocr_pc, batch_start,
             results, batch_results, futures, elapsed, returned>>

engineVars == <<paddleocr_available, engines, ocr_call, lifetime>>

cacheVars == <<max_cache_size_mb, cache, cache_call, ever_set>>

healthVars == <<max_history, operation_history, monitoring_active, total_operations,
                successful_operations, failed_operations, total_response_time,
                health_report, recorded, slow_operations>>

validatorVars == <<validator_config, config_is_fixed, validator_file, validate_call,
                   fix_call>>

managerVars == <<config_file, _config, file_reads, load_call, update_call>>

retryVars == <<max_retries, retry_pc, attempt, last_exception, current_delay, invocations,
               retry_result>>

pluginsVars == <<plugin_manager, process_call>>

loaderVars == <<plugin_instances, unload_call>>

slidesVars == <<paragraphs, ppt_pc, content_blocks, slides, current_slide, current_content,
                current_chars>>

vars == <<breakerVars, factoryVars, windowVars, pageVars, ocrVars, engineVars, cacheVars,
          healthVars, validatorVars, managerVars, retryVars, pluginsVars, loaderVars,
          slidesVars>>

\* What the actions of one part leave alone: the variables of the other parts.
notBreaker == <<factoryVars, windowVars, pageVars, ocrVars, engineVars, cacheVars,
                healthVars, validatorVars, managerVars, retryVars, pluginsVars, loaderVars,
                slidesVars>>
notFactory == <<breakerVars, windowVars, pageVars, ocrVars, engineVars, cacheVars,
                healthVars, validatorVars, managerVars, retryVars, pluginsVars, loaderVars,
                slidesVars>>
notWindow == <<breakerVars, factoryVars, pageVars, ocrVars, engineVars, cacheVars,
               healthVars, validatorVars, managerVars, retryVars, pluginsVars, loaderVars,
               slidesVars>>
notPages == <<breakerVars, factoryVars, windowVars, ocrVars, engineVars, cacheVars,
              healthVars, validatorVars, managerVars, retryVars, pluginsVars, loaderVars,
              slidesVars>>
notOcr == <<breakerVars, factoryVars, windowVars, pageVars, engineVars, cacheVars,
            healthVars, validatorVars, managerVars, retryVars, pluginsVars, loaderVars,
            slidesVars>>
notEngines == <<breakerVars, factoryVars, windowVars, pageVars, ocrVars, cacheVars,
                healthVars, validatorVars, managerVars, retryVars, pluginsVars, loaderVars,
                slidesVars>>
notCache == <<breakerVars, factoryVars, windowVars, pageVars, ocrVars, engineVars,
              healthVars, validatorVars, managerVars, retryVars, pluginsVars, loaderVars,
              slidesVars>>
notHealth == <<breakerVars, factoryVars, windowVars, pageVars, ocrVars, engineVars,
               cacheVars, validatorVars, managerVars, retryVars, pluginsVars, loaderVars,
               slidesVars>>
notValidator == <<breakerVars, factoryVars, windowVars, pageVars, ocrVars, engineVars,
                  cacheVars, healthVars, managerVars, retryVars, pluginsVars, loaderVars,
                  slidesVars>>
notManager == <<breakerVars, factoryVars, windowVars, pageVars, ocrVars, engineVars,
                cacheVars, healthVars, validatorVars, retryVars, pluginsVars, loaderVars,
                slidesVars>>
notRetry == <<breakerVars, factoryVars, windowVars, pageVars, ocrVars, engineVars,
              cacheVars, healthVars, validatorVars, managerVars, pluginsVars, loaderVars,
              slidesVars>>
notPlugins == <<breakerVars, factoryVars, windowVars, pageVars, ocrVars, engineVars,
                cacheVars, healthVars, validatorVars, managerVars, retryVars, loaderVars,
                slidesVars>>
notLoader == <<breakerVars, factoryVars, windowVars, pageVars, ocrVars, engineVars,
               cacheVars, healthVars, validatorVars, managerVars, retryVars, pluginsVars,
               slidesVars>>
notSlides == <<breakerVars, factoryVars, windowVars, pageVars, ocrVars, engineVars,
               cacheVars, healthVars, validatorVars, managerVars, retryVars, pluginsVars,
               loaderVars>>

(***************************************************************************)
(* Bounds of the model.                                                    *)
(***************************************************************************)
MaxThreshold == 3
MaxTimeout == 2
MaxTime == 5
MaxFailures == 4
MaxInstances == 2
MaxThreads == 2
MaxPending == 2
MaxImages == 3
MaxBatchSize == 2
MaxPool == 2
MaxOverrun == 1
MaxTempFiles == 2
MaxCacheSize == 10
MaxRequests == 3
MaxEntries == 3
MaxHistory == 11
MaxOperations == 12
MaxSlow == 1
MaxRetries == 3
MaxRegistered == 5
MaxParagraphs == 3

Min(a, b) == IF a < b THEN a ELSE b

(***************************************************************************)
(* CircuitBreaker                                                          *)
(***************************************************************************)
NoTime == -1

\* Exception kinds a wrapped function can raise.  RuntimeError, ImportError and
\* OSError are the kinds PDFToDocxOCRConverter passes as expected_exception;
\* ValueError stands for any other subclass of Exception.
ExceptionKinds == {"RuntimeError", "OSError", "ValueError"}

\* The two ways the repository constructs a breaker: the default
\* expected_exception=(Exception,) and the OCR converter's narrower tuple.
DefaultExpected == ExceptionKinds
OcrExpected == {"RuntimeError", "OSError"}

NoCall == [pre |-> "none", at |-> 0, lft |-> NoTime, res |-> "none", invoked |-> FALSE]

CircuitBreakerInit ==
    /\ failure_threshold \in 1..MaxThreshold
    /\ recovery_timeout \in 1..MaxTimeout
    /\ expected_exception \in {DefaultExpected, OcrExpected}
    /\ failure_count = 0
    /\ last_failure_time = NoTime
    /\ state = "CLOSED"
    /\ lock = FALSE
    /\ now = 0
    /\ cb_call = NoCall
    /\ streak = 0
    /\ anyStreak = 0

\* CircuitBreaker(), lines 20-37: a breaker built with the default arguments.
DefaultFailureThreshold == 5
DefaultRecoveryTimeout == 60

CircuitBreakerDefault ==
    /\ failure_threshold = DefaultFailureThreshold
    /\ recovery_timeout = DefaultRecoveryTimeout
    /\ expected_exception = DefaultExpected
    /\ failure_count = 0
    /\ last_failure_time = NoTime
    /\ state = "CLOSED"
    /\ lock = FALSE
    /\ now = 0
    /\ cb_call = NoCall
    /\ streak = 0
    /\ anyStreak = 0

_should_attempt_reset ==
    /\ last_failure_time # NoTime
    /\ now - last_failure_time >= recovery_timeout

_on_success_keep_count ==
    /\ failure_count' = failure_count
    /\ state' = IF state = "HALF_OPEN" THEN "CLOSED" ELSE state
    /\ UNCHANGED last_failure_time

_on_success ==
    /\ failure_count' = 0
    /\ state' = IF state = "HALF_OPEN" THEN "CLOSED" ELSE state
    /\ UNCHANGED last_failure_time

_on_failure_off_by_one ==
    /\ failure_count' = failure_count + 1
    /\ last_failure_time' = now
    /\ state' = IF failure_count' > failure_threshold THEN "OPEN" ELSE state

_on_failure ==
    /\ failure_count' = failure_count + 1
    /\ last_failure_time' = now
    /\ state' = IF failure_count' >= failure_threshold THEN "OPEN" ELSE state

\* call(), lines 53-60: take the lock; an OPEN breaker either becomes HALF_OPEN
\* (timeout elapsed) or raises CircuitBreakerOpenException, releasing the lock.
CallEnter ==
    /\ ~lock
    /\ IF state = "OPEN" /\ ~_should_attempt_reset
       THEN /\ cb_call' = [pre |-> state, at |-> now, lft |-> last_failure_time,
                           res |-> "rejected", invoked |-> FALSE]
            /\ UNCHANGED <<state, lock>>
       ELSE /\ state' = IF state = "OPEN" THEN "HALF_OPEN" ELSE state
            /\ lock' = TRUE
            /\ cb_call' = [pre |-> state, at |-> now, lft |-> last_failure_time,
                           res |-> "running", invoked |-> TRUE]
    /\ UNCHANGED <<failure_threshold, recovery_timeout, expected_exception, failure_count,
                   last_failure_time, now, streak, anyStreak>>
    /\ UNCHANGED notBreaker

\* call(), lines 61-64: the wrapped function returned.
CallReturn ==
    /\ lock
    /\ _on_success
    /\ lock' = FALSE
    /\ cb_call' = [cb_call EXCEPT !.res = "ok"]
    /\ streak' = 0
    /\ anyStreak' = 0
    /\ UNCHANGED <<failure_threshold, recovery_timeout, expected_exception, now>>
    /\ UNCHANGED notBreaker

\* call(), lines 65-67: the wrapped function raised; only an exception of an
\* expected kind reaches _on_failure, any other kind leaves the with-block as is.
CallRaise(kind) ==
    /\ lock
    /\ IF kind \in expected_exception
       THEN /\ failure_count < MaxFailures
            /\ _on_failure
            /\ cb_call' = [cb_call EXCEPT !.res = "expected"]
            /\ streak' = Min(streak + 1, MaxFailures)
       ELSE /\ UNCHANGED <<failure_count, last_failure_time, state>>
            /\ cb_call' = [cb_call EXCEPT !.res = "other"]
            /\ streak' = 0
    /\ anyStreak' = Min(anyStreak + 1, MaxFailures)
    /\ lock' = FALSE
    /\ UNCHANGED <<failure_threshold, recovery_timeout, expected_exception, now>>
    /\ UNCHANGED notBreaker

\* reset(), lines 90-96.
reset ==
    /\ ~lock
    /\ failure_count' = 0
    /\ last_failure_time' = NoTime
    /\ state' = "CLOSED"
    /\ cb_call' = NoCall
    /\ streak' = 0
    /\ anyStreak' = 0
    /\ UNCHANGED <<failure_threshold, recovery_timeout, expected_exception, lock, now>>
    /\ UNCHANGED notBreaker

\* The clock advances.
Tick ==
    /\ now < MaxTime
    /\ now' = now + 1
    /\ UNCHANGED <<failure_threshold, recovery_timeout, expected_exception, failure_count,
                   last_failure_time, state, lock, cb_call, streak, anyStreak>>
    /\ UNCHANGED notBreaker

NextBreaker ==
    \/ CallEnter
    \/ CallReturn
    \/ \E kind \in ExceptionKinds : CallRaise(kind)
    \/ reset
    \/ Tick


(***************************************************************************)
(* ConverterFactory                                                        *)
(***************************************************************************)
\* A Python dict, kept as the sequence of its items in insertion order.
DictKeys(d) == [i \in 1..Len(d) |-> d[i].key]
DictHas(d, k) == \E i \in 1..Len(d) : d[i].key = k
DictGet(d, k) == d[CHOOSE i \in 1..Len(d) : d[i].key = k].value
\* d[k] = v: a key already present keeps its place, a new key goes last.
DictSet(d, k, v) ==
    IF DictHas(d, k)
    THEN [i \in 1..Len(d) |-> IF d[i].key = k THEN [key |-> k, value |-> v] ELSE d[i]]
    ELSE Append(d, [key |-> k, value |-> v])
\* del d[k]
DictDel(d, k) == SelectSeq(d, LAMBDA it : it.key # k)

\* str.lower() on the format strings of the model.
Lower(f) ==
    CASE f = "PDF" -> "pdf"
      [] f = "Docx" -> "docx"
      [] f = "DOCX" -> "docx"
      [] OTHER -> f

\* The format strings callers ask for.
InputFormats == {"pdf", "PDF", "docx"}
OutputFormats == {"docx", "DOCX", "pptx"}

\* The (input, output) pairs get_converter is called with.
RequestedInputs == {"PDF", "docx"}
RequestedOutputs == {"DOCX", "pptx"}

ConverterNames == {"a", "b", "c"}

\* The converter classes of the model.  name/inputs/outputs are what an
\* instance reports; ctor and cleanup say whether the constructor and cleanup()
\* return normally; iface says whether the class derives from
\* ConverterInterface; module_md is the *_METADATA object of the module that
\* defines the class (name "" when the module has none).
DefaultPriority == 0
PluginDefaultPriority == 5
BuiltinPriority == 10

NoMetadata == [name |-> "", inputs |-> {}, outputs |-> {}, priority |-> DefaultPriority]

Classes == {
    [cls |-> 1, name |-> "a", inputs |-> {"pdf"}, outputs |-> {"docx"},
     iface |-> TRUE, ctor |-> TRUE, cleanup |-> TRUE,
     module_md |-> [name |-> "a", inputs |-> {"pdf"}, outputs |-> {"docx"},
                    priority |-> BuiltinPriority]],
    [cls |-> 2, name |-> "a", inputs |-> {"PDF"}, outputs |-> {"Docx"},
     iface |-> TRUE, ctor |-> TRUE, cleanup |-> TRUE, module_md |-> NoMetadata],
    [cls |-> 3, name |-> "b", inputs |-> {"pdf"}, outputs |-> {"docx", "pptx"},
     iface |-> TRUE, ctor |-> TRUE, cleanup |-> FALSE, module_md |-> NoMetadata],
    [cls |-> 4, name |-> "c", inputs |-> {"PDF", "docx"}, outputs |-> {"DOCX", "pptx"},
     iface |-> TRUE, ctor |-> TRUE, cleanup |-> TRUE,
     module_md |-> [name |-> "b", inputs |-> {"pdf"}, outputs |-> {"docx"},
                    priority |-> BuiltinPriority]],
    [cls |-> 5, name |-> "c", inputs |-> {"pdf"}, outputs |-> {"docx"},
     iface |-> TRUE, ctor |-> FALSE, cleanup |-> TRUE, module_md |-> NoMetadata],
    [cls |-> 6, name |-> "b", inputs |-> {"pdf"}, outputs |-> {"docx"},
     iface |-> FALSE, ctor |-> TRUE, cleanup |-> TRUE, module_md |-> NoMetadata] }

ClassById(id) == CHOOSE c \in Classes : c.cls = id

\* The classes that live in plugin files the plugin manager loads.
PluginClasses == {c \in Classes : c.cls \in {1, 4, 5}}

\* A Python dict whose order no code depends on, kept as a function that maps
\* an absent key to none.
MapHas(m, k, none) == m[k] # none
NoClass == 0

\* The metadata argument of register_converter(converter_class, metadata):
\* None, or a ConverterMetadata object written for that converter.
MetadataArgs(c) ==
    {NoMetadata,
     [name |-> c.name, inputs |-> {"PDF"}, outputs |-> {"docx", "Docx"},
      priority |-> BuiltinPriority]}

\* register_converter, lines 83-89, and plugin_manager.py lines 137-146:
\* metadata built from the temporary instance.
MetadataOf(c, prio) ==
    [name |-> c.name, inputs |-> c.inputs, outputs |-> c.outputs, priority |-> prio]

NoInstance == [id |-> 0, cls |-> 0]
NoGet == [kind |-> "none", arg |-> <<>>, name |-> "", prev |-> NoInstance,
          result |-> NoInstance]

\* ConverterFactory.__init__, lines 28-31.  The rest of the constructor
\* (built-in converters, plugin directories) is a series of register_converter
\* calls, which the actions below cover.
ConverterFactoryInit ==
    /\ _converters = <<>>
    /\ _metadata = <<>>
    /\ _instances = [n \in ConverterNames |-> NoInstance]
    /\ loaded_plugins = [n \in ConverterNames |-> NoClass]
    /\ nextId = 1
    /\ got = NoGet

IsMetadata(x) == "priority" \in DOMAIN x

\* register_converter, lines 52-100.  x is a converter class or a
\* ConverterMetadata object; md is the second argument (NoMetadata for None).
\* plugins is PluginManager.loaded_plugins as the call finds it.
register_converter(x, md, plugins) ==
    IF IsMetadata(x)
    THEN IF MapHas(plugins, x.name, NoClass)
         THEN /\ _converters' = DictSet(_converters, x.name, plugins[x.name])
              /\ _metadata' = DictSet(_metadata, x.name, x)
         ELSE UNCHANGED <<_converters, _metadata>>
    ELSE IF x.iface /\ x.ctor
         THEN /\ _converters' = DictSet(_converters, x.name, x.cls)
              /\ _metadata' = DictSet(_metadata, x.name,
                                     IF md = NoMetadata
                                     THEN MetadataOf(x, DefaultPriority) ELSE md)
         ELSE UNCHANGED <<_converters, _metadata>>

\* A caller (or the factory's constructor) registers a converter class.
RegisterConverter(c, md) ==
    /\ register_converter(c, md, loaded_plugins)
    /\ got' = NoGet
    /\ UNCHANGED <<_instances, loaded_plugins, nextId>>
    /\ UNCHANGED notFactory

\* PluginManager._register_converter_class, plugin_manager.py lines 121-159:
\* instantiate, record the class, build the metadata, clean the temporary
\* instance up and register the metadata with the factory.  Any exception ends
\* the method where it was raised.
_register_converter_class(c) ==
    /\ c.iface
    /\ IF ~c.ctor
       THEN UNCHANGED <<loaded_plugins, _converters, _metadata>>
       ELSE /\ loaded_plugins' = [loaded_plugins EXCEPT ![c.name] = c.cls]
            /\ IF ~c.cleanup
               THEN UNCHANGED <<_converters, _metadata>>
               ELSE register_converter(
                        IF c.module_md = NoMetadata
                        THEN MetadataOf(c, PluginDefaultPriority) ELSE c.module_md,
                        NoMetadata, loaded_plugins')
    /\ got' = NoGet
    /\ UNCHANGED <<_instances, nextId>>
    /\ UNCHANGED notFactory

\* (mutant) the registration is removed but the live instance is kept.
unregister_converter_keeps_instance(converter_name) ==
    /\ IF DictHas(_converters, converter_name)
       THEN /\ _converters' = DictDel(_converters, converter_name)
            /\ _metadata' = DictDel(_metadata, converter_name)
            /\ UNCHANGED _instances
       ELSE UNCHANGED <<_converters, _metadata, _instances>>
    /\ got' = NoGet
    /\ UNCHANGED <<loaded_plugins, nextId>>
    /\ UNCHANGED notFactory

\* unregister_converter, lines 102-130.  cleanup() of the live instance may
\* raise, which leaves the registration and the instance in place.
unregister_converter(converter_name) ==
    /\ IF DictHas(_converters, converter_name)
       THEN IF MapHas(_instances, converter_name, NoInstance)
               /\ ~ClassById(_instances[converter_name].cls).cleanup
            THEN UNCHANGED <<_converters, _metadata, _instances>>
            ELSE /\ _instances' = [_instances EXCEPT ![converter_name] = NoInstance]
                 /\ _converters' = DictDel(_converters, converter_name)
                 /\ _metadata' = DictDel(_metadata, converter_name)
       ELSE UNCHANGED <<_converters, _metadata, _instances>>
    /\ got' = NoGet
    /\ UNCHANGED <<loaded_plugins, nextId>>
    /\ UNCHANGED notFactory

\* (mutant) ties are broken the other way round.
RECURSIVE InsertByPriority_ties_reversed(_, _)
InsertByPriority_ties_reversed(sorted, x) ==
    IF sorted = <<>> THEN <<x>>
    ELSE IF Head(sorted).priority > x.priority
         THEN <<Head(sorted)>> \o InsertByPriority_ties_reversed(Tail(sorted), x)
         ELSE <<x>> \o sorted

\* list.sort(key=priority, reverse=True) is stable: put x behind every item
\* whose priority is at least x's.
RECURSIVE InsertByPriority(_, _)
InsertByPriority(sorted, x) ==
    IF sorted = <<>> THEN <<x>>
    ELSE IF Head(sorted).priority >= x.priority
         THEN <<Head(sorted)>> \o InsertByPriority(Tail(sorted), x)
         ELSE <<x>> \o sorted

RECURSIVE SortByPriorityDesc(_)
SortByPriorityDesc(items) ==
    IF items = <<>> THEN <<>>
    ELSE InsertByPriority(SortByPriorityDesc(SubSeq(items, 1, Len(items) - 1)),
                          items[Len(items)])

Matches(metadata, input_format, output_format) ==
    /\ Lower(input_format) \in {Lower(fmt) : fmt \in metadata.inputs}
    /\ Lower(output_format) \in {Lower(fmt) : fmt \in metadata.outputs}

\* get_converters_for_format, lines 169-188.
get_converters_for_format(input_format, output_format) ==
    LET suitable_converters ==
            SelectSeq([i \in 1..Len(_metadata) |->
                          [name |-> _metadata[i].key,
                           priority |-> _metadata[i].value.priority,
                           ok |-> Matches(_metadata[i].value, input_format, output_format)]],
                      LAMBDA it : it.ok)
        sorted == SortByPriorityDesc(suitable_converters)
    IN  [i \in 1..Len(sorted) |-> sorted[i].name]

\* get_converter, lines 157-167: the instance kept under converter_name,
\* created on first use.
Instantiate(kind, arg, converter_name) ==
    IF MapHas(_instances, converter_name, NoInstance)
    THEN /\ got' = [kind |-> kind, arg |-> arg, name |-> converter_name,
                    prev |-> _instances[converter_name],
                    result |-> _instances[converter_name]]
         /\ UNCHANGED <<_instances, nextId>>
    ELSE IF ClassById(DictGet(_converters, converter_name)).ctor
         THEN /\ nextId <= MaxInstances
              /\ LET inst == [id |-> nextId, cls |-> DictGet(_converters, converter_name)]
                 IN  /\ _instances' = [_instances EXCEPT ![converter_name] = inst]
                     /\ got' = [kind |-> kind, arg |-> arg, name |-> converter_name,
                                prev |-> NoInstance, result |-> inst]
              /\ nextId' = nextId + 1
         ELSE /\ got' = [kind |-> kind, arg |-> arg, name |-> converter_name,
                         prev |-> NoInstance, result |-> NoInstance]
              /\ UNCHANGED <<_instances, nextId>>

\* get_converter(name), lines 143-147 and 157-167.
GetConverterByName(converter_name) ==
    /\ IF ~DictHas(_converters, converter_name)
       THEN /\ got' = [kind |-> "name", arg |-> <<converter_name>>, name |-> "",
                       prev |-> NoInstance, result |-> NoInstance]
            /\ UNCHANGED <<_instances, nextId>>
       ELSE Instantiate("name", <<converter_name>>, converter_name)
    /\ UNCHANGED <<_converters, _metadata, loaded_plugins>>
    /\ UNCHANGED notFactory

\* get_converter(input_format, output_format), lines 148-167.
GetConverterByFormat(input_format, output_format) ==
    /\ LET converters == get_converters_for_format(input_format, output_format)
       IN  IF converters = <<>>
           THEN /\ got' = [kind |-> "format", arg |-> <<input_format, output_format>>,
                           name |-> "", prev |-> NoInstance, result |-> NoInstance]
                /\ UNCHANGED <<_instances, nextId>>
           ELSE Instantiate("format", <<input_format, output_format>>, converters[1])
    /\ UNCHANGED <<_converters, _metadata, loaded_plugins>>
    /\ UNCHANGED notFactory

\* cleanup_all, lines 394-403: a failing cleanup() is logged, every instance
\* is dropped.
cleanup_all ==
    /\ _instances' = [n \in ConverterNames |-> NoInstance]
    /\ got' = NoGet
    /\ UNCHANGED <<_converters, _metadata, loaded_plugins, nextId>>
    /\ UNCHANGED notFactory

NextFactory ==
    \/ \E c \in Classes : \E md \in MetadataArgs(c) : RegisterConverter(c, md)
    \/ \E c \in PluginClasses : _register_converter_class(c)
    \/ \E n \in ConverterNames : unregister_converter(n)
    \/ \E n \in ConverterNames : GetConverterByName(n)
    \/ \E i \in RequestedInputs : \E o \in RequestedOutputs : GetConverterByFormat(i, o)
    \/ cleanup_all



(***************************************************************************)
(* Main window: start_conversion and conversion_thread                     *)
(***************************************************************************)
OutputFormatsOfWindow == {"docx", "pptx", "pptx_via_word", "txt", "jpg", "png"}
ImageFormats == {"jpg", "png"}

\* The .pdf files an input folder can hold (base names).
PdfBaseNames == {"x", "q?"}
\* Every PDF of the model has this many pages.
PagesPerPdf == 1
\* conversion_thread, line 655: the page files looked for are page 1..1000.
ProbeLimit == 1000

\* sanitize_filename, lines 448-467, on the base names of the model: each of
\* <>:"/\|?* becomes an underscore.
sanitize_filename(filename) ==
    CASE filename = "q?" -> "q_"
      [] OTHER -> filename

\* A file under the output directory: dir is "" for the directory itself or
\* the name of a sub-folder; page is 0 for a document, else the page number.
File(dir, base, ext, page) == [dir |-> dir, base |-> base, ext |-> ext, page |-> page]

Extension(output_format) ==
    IF output_format = "pptx_via_word" THEN "pptx" ELSE output_format

\* conversion_thread, lines 636-664: does an output of pdf_file already exist?
OutputExists(base_name, output_format, files) ==
    IF output_format \in ImageFormats
    THEN \E page_num \in 1..ProbeLimit :
            File("", base_name, output_format, page_num) \in files
    ELSE File("", base_name, Extension(output_format), 0) \in files

\* The files a conversion of pdf_file writes: convert_to_docx line 723,
\* convert_to_txt line 1125, convert_to_pptx line 1158, convert_to_pptx_via_word
\* line 1191, convert_to_image lines 1317-1349.
OutputsOf(base_name, output_format) ==
    IF output_format \in ImageFormats
    THEN {File(sanitize_filename(base_name), base_name, output_format, n) :
             n \in 1..PagesPerPdf}
    ELSE {File("", base_name, Extension(output_format), 0)}

\* Files that may lie in the output directory before a batch starts.
PossibleFiles(output_format) ==
    OutputsOf("x", output_format)
       \cup {File("", "x", Extension(output_format),
                  IF output_format \in ImageFormats THEN 1 ELSE 0)}

\* The three widgets that decide the output format.
choice == <<selected_function, image_format_var, ppt_method_var>>

\* start_conversion, lines 570-593 and 605: the output format of the batch.
\* A function that is not implemented falls back to docx.
output_format_of(func, image_format, ppt_method) ==
    CASE func = "docx" -> "docx"
      [] func = "image" -> image_format
      [] func = "pptx" -> IF ppt_method = "via_word" THEN "pptx_via_word" ELSE "pptx"
      [] func = "txt" -> "txt"
      [] OTHER -> "docx"

\* start_conversion, lines 572-592 and 604.
mode_of(func) == IF func = "image" THEN "image" ELSE "document"

NoThread == [pc |-> "unstarted", mode |-> "", output_format |-> "", pdf_files |-> <<>>, i |-> 0,
             successful |-> 0, failed |-> 0, outcomes |-> <<>>,
             clash |-> FALSE, asked |-> 0, written |-> {}, summary |-> <<>>]

Threads == 1..MaxThreads

Running(t) == threads[t].pc \in {"started", "asking", "converting"}

Percent(num, den) == [num |-> num, den |-> den]
Idle == [kind |-> "idle", thread |-> 0, i |-> 0]

MainWindowInit ==
    /\ file_path_var \in {"", "in"}
    /\ output_dir_var \in {"", "out"}
    /\ selected_function \in {"docx", "image", "pptx", "excel"}
    /\ image_format_var \in (IF selected_function = "image" THEN ImageFormats ELSE {"jpg"})
    /\ ppt_method_var \in (IF selected_function = "pptx" THEN {"direct", "via_word"}
                           ELSE {"direct"})
    /\ input_files \in {<<>>, <<"x">>, <<"x", "q?">>}
    /\ fs \in SUBSET PossibleFiles(output_format_of(selected_function, image_format_var,
                                                     ppt_method_var))
    /\ threads = [t \in Threads |-> NoThread]
    /\ status_var = Idle
    /\ progress_var = Percent(0, 1)
    /\ log_text = Idle

\* start_conversion, lines 556-609: the start button.  Without an input path
\* or an output directory an error box is shown; otherwise a new worker
\* thread is started, whatever other workers are doing.
start_conversion(t) ==
    /\ threads[t].pc = "unstarted"
    /\ \A u \in Threads : u < t => threads[u].pc # "unstarted"
    /\ file_path_var # ""
    /\ output_dir_var # ""
    /\ threads' = [threads EXCEPT ![t] =
                      [NoThread EXCEPT
                          !.pc = "started",
                          !.mode = mode_of(selected_function),
                          !.output_format = output_format_of(selected_function,
                                                             image_format_var,
                                                             ppt_method_var)]]
    /\ UNCHANGED <<file_path_var, output_dir_var, choice, input_files, fs,
                   status_var, progress_var, log_text>>
    /\ UNCHANGED notWindow

\* start_conversion, lines 559-567: nothing is started.
start_conversion_rejected ==
    /\ file_path_var = "" \/ output_dir_var = ""
    /\ log_text' = [kind |-> "error box", thread |-> 0, i |-> 0]
    /\ UNCHANGED <<file_path_var, output_dir_var, choice, input_files, fs, threads,
                   status_var, progress_var>>
    /\ UNCHANGED notWindow

\* conversion_thread, lines 613-674 up to the overwrite question.
ThreadPrepare(t) ==
    /\ threads[t].pc = "started"
    /\ progress_var' = Percent(0, 1)
    /\ LET pdf_files == input_files
           existing_files == SelectSeq(pdf_files,
                                 LAMBDA b : OutputExists(b, threads[t].output_format, fs))
           will_write == UNION {OutputsOf(pdf_files[k], threads[t].output_format) :
                                   k \in 1..Len(pdf_files)}
       IN  IF pdf_files = <<>>
           THEN /\ status_var' = [kind |-> "no pdf", thread |-> t, i |-> 0]
                /\ threads' = [threads EXCEPT ![t].pc = "ended"]
                /\ UNCHANGED log_text
           ELSE /\ status_var' = [kind |-> "preparing", thread |-> t, i |-> 0]
                /\ log_text' = [kind |-> "found", thread |-> t, i |-> Len(pdf_files)]
                /\ threads' = [threads EXCEPT
                                  ![t].pdf_files = pdf_files,
                                  ![t].clash = (will_write \cap fs # {}),
                                  ![t].asked = IF existing_files # <<>> THEN 1 ELSE 0,
                                  ![t].pc = IF existing_files # <<>>
                                            THEN "asking" ELSE "converting"]
    /\ UNCHANGED <<file_path_var, output_dir_var, choice, input_files, fs>>
    /\ UNCHANGED notWindow

\* conversion_thread, lines 670-674: the user's answer to the overwrite question.
AnswerOverwrite(t, result) ==
    /\ threads[t].pc = "asking"
    /\ IF result
       THEN /\ threads' = [threads EXCEPT ![t].pc = "converting"]
            /\ UNCHANGED <<status_var, log_text>>
       ELSE /\ threads' = [threads EXCEPT ![t].pc = "cancelled"]
            /\ status_var' = [kind |-> "cancelled", thread |-> t, i |-> 0]
            /\ log_text' = [kind |-> "cancelled", thread |-> t, i |-> 0]
    /\ UNCHANGED <<file_path_var, output_dir_var, choice, input_files, fs,
                   progress_var>>
    /\ UNCHANGED notWindow

\* conversion_thread, lines 706-707.
ProgressAfter(i, total_files) == Percent((i + 1) * 100, total_files)

\* (mutant) the first failure ends the loop.
NextIndex_stop_on_failure(i, total_files, raised) == IF raised THEN total_files ELSE i + 1

\* conversion_thread, line 680: the loop goes on to the next file whether or
\* not the conversion raised.
NextIndex(i, total_files, raised) == i + 1

Outcomes == {"ok", "raised", "raised after writing"}

\* conversion_thread, lines 680-707: one turn of the loop.  The conversion
\* returns (its outputs are written) or raises, before or after it wrote,
\* which is counted as a failure.
ConvertFile(t, outcome) ==
    /\ threads[t].pc = "converting"
    /\ threads[t].i < Len(threads[t].pdf_files)
    /\ LET r == threads[t]
           raised == outcome # "ok"
           pdf_file == r.pdf_files[r.i + 1]
           outputs == IF outcome = "raised" THEN {}
                      ELSE OutputsOf(pdf_file, r.output_format)
       IN  /\ fs' = fs \cup outputs
           /\ threads' = [threads EXCEPT
                             ![t].successful = IF raised THEN @ ELSE @ + 1,
                             ![t].failed = IF raised THEN @ + 1 ELSE @,
                             ![t].outcomes = Append(@, IF raised THEN "failed" ELSE "ok"),
                             ![t].written = @ \cup outputs,
                             ![t].i = NextIndex(r.i, Len(r.pdf_files), raised)]
           /\ status_var' = [kind |-> "converting", thread |-> t, i |-> r.i + 1]
           /\ log_text' = IF raised THEN [kind |-> "error", thread |-> t, i |-> r.i + 1]
                          ELSE [kind |-> "success", thread |-> t, i |-> r.i + 1]
           /\ progress_var' = ProgressAfter(r.i, Len(r.pdf_files))
    /\ UNCHANGED <<file_path_var, output_dir_var, choice, input_files>>
    /\ UNCHANGED notWindow

\* conversion_thread, lines 709-712: the summary.
ThreadFinish(t) ==
    /\ threads[t].pc = "converting"
    /\ threads[t].i = Len(threads[t].pdf_files)
    /\ threads' = [threads EXCEPT ![t].pc = "done",
                                  ![t].summary = <<threads[t].successful, threads[t].failed>>]
    /\ status_var' = [kind |-> "finished", thread |-> t, i |-> 0]
    /\ log_text' = [kind |-> "finished", thread |-> t, i |-> 0]
    /\ UNCHANGED <<file_path_var, output_dir_var, choice, input_files, fs,
                   progress_var>>
    /\ UNCHANGED notWindow

NextWindow ==
    \/ \E t \in Threads : start_conversion(t)
    \/ start_conversion_rejected
    \/ \E t \in Threads : ThreadPrepare(t)
    \/ \E t \in Threads : \E result \in BOOLEAN : AnswerOverwrite(t, result)
    \/ \E t \in Threads : \E outcome \in Outcomes : ConvertFile(t, outcome)
    \/ \E t \in Threads : ThreadFinish(t)

\* The window as constructed, with nothing chosen.
MainWindowIdle ==
    /\ file_path_var = ""
    /\ output_dir_var = ""
    /\ selected_function = "docx"
    /\ image_format_var = "jpg"
    /\ ppt_method_var = "direct"
    /\ input_files = <<>>
    /\ fs = {}
    /\ threads = [t \in Threads |-> NoThread]
    /\ status_var = Idle
    /\ progress_var = Percent(0, 1)
    /\ log_text = Idle


(***************************************************************************)
(* Page operations: thumbnails, page selection, delete_selected_pages      *)
(***************************************************************************)
\* The PDF files the user can open, and the file a deletion is saved to.
SourcePaths == {"a.pdf", "b.pdf"}
SavePath == "out.pdf"
NoDocument == <<>>

NoDeletion == [outcome |-> "none", total_pages |-> 0, selected |-> {}, before |-> <<>>,
               written |-> <<>>]

PdfOperationsInit ==
    /\ disk = [path \in SourcePaths \cup {SavePath} |->
                  CASE path = "a.pdf" -> <<"a1", "a2">>
                    [] path = "b.pdf" -> <<"b1", "b2">>
                    [] OTHER -> NoDocument]
    /\ pdf_path = ""
    /\ pdf_document = NoDocument
    /\ page_thumbnails = <<>>
    /\ selected_pages = {}
    /\ workers = <<>>
    /\ after_queue = <<>>
    /\ deletion = NoDeletion

\* Work still to be done by thumbnail threads and queued callbacks.
Pending == Len(workers) + Len(after_queue)

\* browse_pdf_file, lines 147-154, with a file chosen in the dialog.
browse_pdf_file(file_path) ==
    /\ pdf_path' = file_path
    /\ deletion' = NoDeletion
    /\ UNCHANGED <<disk, pdf_document, page_thumbnails, selected_pages, workers,
                   after_queue>>
    /\ UNCHANGED notPages

\* load_pdf_pages, lines 162-174, with pdf_path set and fitz.open succeeding:
\* the document is opened, the old check boxes are destroyed, the selection
\* is emptied and a _generate_thumbnails thread is started.
Reload(path, files) ==
    /\ pdf_document' = files[path]
    /\ page_thumbnails' = <<>>
    /\ selected_pages' = {}
    /\ workers' = Append(workers, [started |-> FALSE, total_pages |-> 0, page_num |-> 0])

\* load_pdf_pages, lines 156-177: the load button.
load_pdf_pages ==
    /\ Pending < MaxPending
    /\ IF pdf_path = "" \/ disk[pdf_path] = NoDocument
       THEN UNCHANGED <<pdf_document, page_thumbnails, selected_pages, workers>>
       ELSE Reload(pdf_path, disk)
    /\ deletion' = NoDeletion
    /\ UNCHANGED <<disk, pdf_path, after_queue>>
    /\ UNCHANGED notPages

\* _generate_thumbnails, lines 186-187: the thread reads the page count of
\* whatever document is open when it gets to run.
WorkerStart(w) ==
    /\ ~workers[w].started
    /\ workers' = [workers EXCEPT ![w] = [started |-> TRUE,
                                          total_pages |-> Len(pdf_document),
                                          page_num |-> 0]]
    /\ UNCHANGED <<disk, pdf_path, pdf_document, page_thumbnails, selected_pages,
                   after_queue, deletion>>
    /\ UNCHANGED notPages

\* _generate_thumbnails, lines 193-195: one turn of the loop queues one
\* _create_single_thumbnail call; the thread ends after the last turn.
WorkerQueue(w) ==
    /\ workers[w].started
    /\ IF workers[w].page_num < workers[w].total_pages
       THEN /\ after_queue' = Append(after_queue, workers[w].page_num)
            /\ workers' = [workers EXCEPT ![w].page_num = @ + 1]
       ELSE /\ workers' = SubSeq(workers, 1, w - 1) \o SubSeq(workers, w + 1, Len(workers))
            /\ UNCHANGED after_queue
    /\ UNCHANGED <<disk, pdf_path, pdf_document, page_thumbnails, selected_pages, deletion>>
    /\ UNCHANGED notPages

\* _create_single_thumbnail, lines 200-251, run by the event loop: a page
\* number outside the open document, or a rendering failure, raises and
\* nothing is added; otherwise a check box (unticked) is appended.
_create_single_thumbnail(renders) ==
    /\ after_queue # <<>>
    /\ LET page_num == Head(after_queue)
       IN  IF page_num < Len(pdf_document) /\ renders
           THEN page_thumbnails' = Append(page_thumbnails, [page |-> page_num, var |-> FALSE])
           ELSE UNCHANGED page_thumbnails
    /\ after_queue' = Tail(after_queue)
    /\ UNCHANGED <<disk, pdf_path, pdf_document, selected_pages, workers, deletion>>
    /\ UNCHANGED notPages

\* The user clicks check box k: the BooleanVar flips and _on_page_select,
\* lines 253-258, runs with the page number bound to that check box.
_on_page_select(k) ==
    /\ k \in 1..Len(page_thumbnails)
    /\ LET page_num == page_thumbnails[k].page
           var == ~page_thumbnails[k].var
       IN  /\ page_thumbnails' = [page_thumbnails EXCEPT ![k].var = var]
           /\ selected_pages' = IF var THEN selected_pages \cup {page_num}
                                ELSE selected_pages \ {page_num}
    /\ deletion' = NoDeletion
    /\ UNCHANGED <<disk, pdf_path, pdf_document, workers, after_queue>>
    /\ UNCHANGED notPages

\* select_all_pages, lines 260-264: i is the position in page_thumbnails.
select_all_pages ==
    /\ page_thumbnails' = [k \in 1..Len(page_thumbnails) |->
                              [page_thumbnails[k] EXCEPT !.var = TRUE]]
    /\ selected_pages' = selected_pages \cup {k - 1 : k \in 1..Len(page_thumbnails)}
    /\ deletion' = NoDeletion
    /\ UNCHANGED <<disk, pdf_path, pdf_document, workers, after_queue>>
    /\ UNCHANGED notPages

\* deselect_all_pages, lines 266-270.
deselect_all_pages ==
    /\ page_thumbnails' = [k \in 1..Len(page_thumbnails) |->
                              [page_thumbnails[k] EXCEPT !.var = FALSE]]
    /\ selected_pages' = {}
    /\ deletion' = NoDeletion
    /\ UNCHANGED <<disk, pdf_path, pdf_document, workers, after_queue>>
    /\ UNCHANGED notPages

\* invert_selection, lines 272-280.
invert_selection ==
    /\ page_thumbnails' = [k \in 1..Len(page_thumbnails) |->
                              [page_thumbnails[k] EXCEPT !.var = ~@]]
    /\ selected_pages' =
          (selected_pages \ {k - 1 : k \in {j \in 1..Len(page_thumbnails) :
                                               page_thumbnails[j].var}})
             \cup {k - 1 : k \in {j \in 1..Len(page_thumbnails) : ~page_thumbnails[j].var}}
    /\ deletion' = NoDeletion
    /\ UNCHANGED <<disk, pdf_path, pdf_document, workers, after_queue>>
    /\ UNCHANGED notPages

\* delete_selected_pages, lines 513-516: the pages copied to the new document.
RECURSIVE KeptPages(_, _, _)
KeptPages(document, selected, page_num) ==
    IF page_num >= Len(document) THEN <<>>
    ELSE (IF page_num \notin selected THEN <<document[page_num + 1]>> ELSE <<>>)
            \o KeptPages(document, selected, page_num + 1)

\* delete_selected_pages, lines 474-532.  confirmed is the answer to the
\* confirmation box, save_path the file chosen in the save dialog ("" when
\* the dialog is cancelled).
delete_selected_pages(confirmed, save_path) ==
    /\ Pending < MaxPending
    /\ LET selected_count == Cardinality(selected_pages)
           total_pages == Len(pdf_document)
           record == [outcome |-> "none", total_pages |-> total_pages,
                      selected |-> selected_pages, before |-> pdf_document,
                      written |-> <<>>]
       IN  IF selected_pages = {} \/ pdf_document = NoDocument
           THEN /\ deletion' = [record EXCEPT !.outcome = "nothing to do"]
                /\ UNCHANGED <<disk, pdf_path, pdf_document, page_thumbnails,
                               selected_pages, workers>>
           ELSE IF selected_count >= total_pages
           THEN /\ deletion' = [record EXCEPT !.outcome = "rejected"]
                /\ UNCHANGED <<disk, pdf_path, pdf_document, page_thumbnails,
                               selected_pages, workers>>
           ELSE IF ~confirmed \/ save_path = ""
           THEN /\ deletion' = [record EXCEPT !.outcome = "cancelled"]
                /\ UNCHANGED <<disk, pdf_path, pdf_document, page_thumbnails,
                               selected_pages, workers>>
           ELSE LET new_doc == KeptPages(pdf_document, selected_pages, 0)
                IN  /\ disk' = [disk EXCEPT ![save_path] = new_doc]
                    /\ pdf_path' = save_path
                    /\ Reload(save_path, disk')
                    /\ deletion' = [record EXCEPT !.outcome = "saved",
                                                  !.written = new_doc]
    /\ UNCHANGED after_queue
    /\ UNCHANGED notPages

NextPages ==
    \/ \E file_path \in SourcePaths : browse_pdf_file(file_path)
    \/ load_pdf_pages
    \/ \E w \in 1..Len(workers) : WorkerStart(w)
    \/ \E w \in 1..Len(workers) : WorkerQueue(w)
    \/ \E renders \in BOOLEAN : _create_single_thumbnail(renders)
    \/ \E k \in 1..Len(page_thumbnails) : _on_page_select(k)
    \/ select_all_pages
    \/ deselect_all_pages
    \/ invert_selection
    \/ \E confirmed \in BOOLEAN : \E save_path \in {"", SavePath} :
          delete_selected_pages(confirmed, save_path)


(***************************************************************************)
(* EnhancedOCRMethods: batch_process_images                                *)
(***************************************************************************)
DefaultBatchSize == 5
DefaultMaxWorkers == 3
DefaultTimeoutPerImage == 30

\* What the OCR of one image does: it returns text, it raises, or it never
\* comes back.
ImageKinds == {"ok", "raises", "hangs"}

None == [success |-> FALSE, text |-> "None", error |-> "None", image |-> 0]
NoReturn == [kind |-> "none", value |-> <<>>]

RECURSIVE SeqsUpTo(_, _)
SeqsUpTo(S, n) ==
    IF n = 0 THEN {<<>>}
    ELSE LET shorter == SeqsUpTo(S, n - 1)
         IN  shorter \cup {Append(q, x) : q \in {r \in shorter : Len(r) = n - 1}, x \in S}

OcrIdle ==
    /\ ocr_pc = "idle"
    /\ batch_start = 0
    /\ results = <<>>
    /\ batch_results = <<>>
    /\ futures = <<>>
    /\ elapsed = 0
    /\ returned = NoReturn

\* __init__, lines 22-34, with the batch configuration set by the owner and
\* the list of images the next batch_process_images call is given.
EnhancedOCRMethodsInit ==
    /\ batch_size \in 1..MaxBatchSize
    /\ max_workers \in 1..MaxPool
    /\ timeout_per_image = 1
    /\ images \in SeqsUpTo(ImageKinds, MaxImages)
    /\ OcrIdle

\* __init__, lines 22-34, as written, with no call in progress.
EnhancedOCRMethodsDefault ==
    /\ batch_size = DefaultBatchSize
    /\ max_workers = DefaultMaxWorkers
    /\ timeout_per_image = DefaultTimeoutPerImage
    /\ images = <<>>
    /\ OcrIdle

\* extract_text_from_image, lines 36-76, through _process_single_with_timeout,
\* lines 159-184: an exception of the OCR is caught and turned into a failure
\* result carrying the exception's text.  The image field records which
\* input image the result was computed from.
extract_text_from_image(kind, position) ==
    IF kind = "ok"
    THEN [success |-> TRUE, text |-> "text", error |-> "", image |-> position]
    ELSE [success |-> FALSE, text |-> "", error |-> "str(e)", image |-> position]

\* _process_batch_concurrent, lines 146-155: the result put in an unset slot.
TimeoutOrFailed == [success |-> FALSE, text |-> "", error |-> "Processing timeout or failed",
                    image |-> 0]

\* The images of the batch that starts at offset i, line 97.
BatchLen(i) == Min(batch_size, Len(images) - i)

\* _process_batch_concurrent, lines 119-126: every image of the batch is
\* submitted to a fresh pool, and as_completed starts its clock.
Submit(i) ==
    /\ batch_start' = i
    /\ batch_results' = [idx \in 1..BatchLen(i) |-> None]
    /\ futures' = [idx \in 1..BatchLen(i) |-> "queued"]
    /\ elapsed' = 0

\* batch_process_images, lines 87-98: the call.
batch_process_images ==
    /\ ocr_pc = "idle"
    /\ results' = <<>>
    /\ IF images = <<>>
       THEN /\ ocr_pc' = "returned"
            /\ returned' = [kind |-> "results", value |-> <<>>]
            /\ UNCHANGED <<batch_start, batch_results, futures, elapsed>>
       ELSE /\ ocr_pc' = "collecting"
            /\ Submit(0)
            /\ UNCHANGED returned
    /\ UNCHANGED <<batch_size, max_workers, timeout_per_image, images>>
    /\ UNCHANGED notOcr

InPool == {idx \in 1..Len(futures) : futures[idx] = "running"}

\* ThreadPoolExecutor: a queued task starts when one of the max_workers
\* threads is free, in submission order.
TaskStart(idx) ==
    /\ ocr_pc \in {"collecting", "shutdown"}
    /\ futures[idx] = "queued"
    /\ \A earlier \in 1..(idx - 1) : futures[earlier] # "queued"
    /\ Cardinality(InPool) < max_workers
    /\ futures' = [futures EXCEPT ![idx] = "running"]
    /\ UNCHANGED <<batch_size, max_workers, timeout_per_image, images, ocr_pc, batch_start,
                   results, batch_results, elapsed, returned>>
    /\ UNCHANGED notOcr

\* _process_single_with_timeout, lines 159-184, returns; an OCR that hangs
\* never does.
TaskFinish(idx) ==
    /\ ocr_pc \in {"collecting", "shutdown"}
    /\ futures[idx] = "running"
    /\ images[batch_start + idx] # "hangs"
    /\ futures' = [futures EXCEPT ![idx] = "done"]
    /\ UNCHANGED <<batch_size, max_workers, timeout_per_image, images, ocr_pc, batch_start,
                   results, batch_results, elapsed, returned>>
    /\ UNCHANGED notOcr

\* The clock, while a batch is being waited for.  as_completed (line 129)
\* wakes at its deadline, so the clock does not pass the deadline while the
\* for statement is still waiting; ThreadPoolExecutor.__exit__ (line 121)
\* waits with no deadline.
OcrTick ==
    /\ ocr_pc \in {"collecting", "shutdown"}
    /\ ocr_pc = "collecting" => elapsed < timeout_per_image * Len(futures)
    /\ elapsed < timeout_per_image * Len(futures) + MaxOverrun
    /\ elapsed' = elapsed + 1
    /\ UNCHANGED <<batch_size, max_workers, timeout_per_image, images, ocr_pc, batch_start,
                   results, batch_results, futures, returned>>
    /\ UNCHANGED notOcr

\* _process_batch_concurrent, lines 129-133: as_completed yields a finished
\* future and its result is stored at the future's index.
Collect(idx) ==
    /\ ocr_pc = "collecting"
    /\ futures[idx] = "done"
    /\ futures' = [futures EXCEPT ![idx] = "yielded"]
    /\ batch_results' = [batch_results EXCEPT ![idx] =
                            extract_text_from_image(images[batch_start + idx],
                                                    batch_start + idx)]
    /\ UNCHANGED <<batch_size, max_workers, timeout_per_image, images, ocr_pc, batch_start,
                   results, elapsed, returned>>
    /\ UNCHANGED notOcr

\* _process_batch_concurrent, lines 145-155.
FillUnset(slots) ==
    [idx \in 1..Len(slots) |-> IF slots[idx] = None THEN TimeoutOrFailed ELSE slots[idx]]

\* _process_batch_concurrent, lines 145-157, and batch_process_images, lines
\* 96-106: as_completed is exhausted, the pool is closed, unset slots are
\* filled, the batch is appended, and the next batch starts or the call
\* returns.
BatchDone ==
    /\ ocr_pc = "collecting"
    /\ \A idx \in 1..Len(futures) : futures[idx] = "yielded"
    /\ results' = results \o FillUnset(batch_results)
    /\ LET i == batch_start + batch_size
       IN  IF i < Len(images)
           THEN /\ Submit(i)
                /\ UNCHANGED <<ocr_pc, returned>>
           ELSE /\ ocr_pc' = "returned"
                /\ returned' = [kind |-> "results", value |-> results']
                /\ UNCHANGED <<batch_start, batch_results, futures, elapsed>>
    /\ UNCHANGED <<batch_size, max_workers, timeout_per_image, images>>
    /\ UNCHANGED notOcr

\* _process_batch_concurrent, line 129: the aggregate timeout has passed
\* while a future is still unfinished, and as_completed raises TimeoutError
\* from the for statement, outside the try of lines 131-143.  The with block
\* of line 121 is left through ThreadPoolExecutor.__exit__.
AsCompletedTimeout ==
    /\ ocr_pc = "collecting"
    /\ \E idx \in 1..Len(futures) : futures[idx] \in {"queued", "running"}
    /\ elapsed >= timeout_per_image * Len(futures)
    /\ ocr_pc' = "shutdown"
    /\ UNCHANGED <<batch_size, max_workers, timeout_per_image, images, batch_start,
                   results, batch_results, futures, elapsed, returned>>
    /\ UNCHANGED notOcr

\* ThreadPoolExecutor.__exit__ (line 121) waits for every task, then the
\* TimeoutError leaves _process_batch_concurrent and batch_process_images
\* (line 98), neither of which catches it.
ShutdownDone ==
    /\ ocr_pc = "shutdown"
    /\ \A idx \in 1..Len(futures) : futures[idx] \in {"done", "yielded"}
    /\ ocr_pc' = "returned"
    /\ returned' = [kind |-> "TimeoutError", value |-> <<>>]
    /\ UNCHANGED <<batch_size, max_workers, timeout_per_image, images, batch_start,
                   results, batch_results, futures, elapsed>>
    /\ UNCHANGED notOcr

NextOcr ==
    \/ batch_process_images
    \/ \E idx \in 1..Len(futures) : TaskStart(idx)
    \/ \E idx \in 1..Len(futures) : TaskFinish(idx)
    \/ OcrTick
    \/ \E idx \in 1..Len(futures) : Collect(idx)
    \/ BatchDone
    \/ AsCompletedTimeout
    \/ ShutdownDone


(***************************************************************************)
(* PDFToDocxOCRConverter: engine selection and cleanup                     *)
(***************************************************************************)
\* Texts of the exceptions the libraries and the converter raise.
NotInitialised == "PaddleOCR not initialised"
LibraryMessages == {"CUDA error", "out of memory", "GPU not available",
                    "cuda runtime error", "file not found"}

\* "CUDA" in str(e), lines 543, 552, 681 and 728.
HasCUDA(msg) == msg \in {"CUDA error"}
\* "memory" in str(e).lower(), same lines.
HasMemory(msg) == msg \in {"out of memory"}
\* _should_force_cpu_mode, lines 118-125.
_should_force_cpu_mode(msg) ==
    msg \in {"CUDA error", "out of memory", "GPU not available", "cuda runtime error"}

NoEngine == "None"
\* What self._get_paddle_ocr() evaluates to: a function made by retry_ocr_init.
WrapperFunction == "wrapper"

\* The circuit breaker of the instance, __init__ lines 66-70, as built by
\* CircuitBreaker.__init__ (retry_manager.py lines 20-37).
OcrFailureThreshold == 3
OcrRecoveryTimeout == 30
NewOcrBreaker == [failure_threshold |-> OcrFailureThreshold,
                  recovery_timeout |-> OcrRecoveryTimeout,
                  failure_count |-> 0, state |-> "CLOSED"]

\* __init__, lines 57-70.
FreshEngines == [_ocr_engine |-> "paddle", _force_cpu_mode |-> FALSE, _paddle_ocr |-> NoEngine,
                 _easy_ocr_reader |-> NoEngine, _temp_files |-> 0,
                 circuit_breaker |-> NewOcrBreaker]

NoOcrCall == [op |-> "none", paddle |-> "none", msg |-> "", easy |-> "none",
              before |-> FreshEngines]
NewLifetime == [paddle_failed |-> FALSE, messages |-> {}]

\* __init__, lines 55-89.
PDFToDocxOCRConverterInit ==
    /\ paddleocr_available \in BOOLEAN
    /\ engines = FreshEngines
    /\ ocr_call = NoOcrCall
    /\ lifetime = NewLifetime

\* The converter as constructed where the paddleocr package is installed.
PDFToDocxOCRConverterIdle ==
    /\ paddleocr_available = TRUE
    /\ engines = FreshEngines
    /\ ocr_call = NoOcrCall
    /\ lifetime = NewLifetime

\* The outcome of a method: the converter's fields afterwards, how it ended
\* ("ok" or "raise"), the exception text, and what the paddle engine did.
Outcome(st, end, msg, paddle) == [st |-> st, end |-> end, msg |-> msg, paddle |-> paddle]

\* _get_paddle_ocr, lines 216-309.  Line 216 applies retry_ocr_init without
\* calling it, so the function of lines 218-309 is passed as max_retries and
\* the name is bound to retry_ocr_init's inner decorator (retry_manager.py
\* lines 121-144).  self._get_paddle_ocr() is therefore decorator(self): it
\* returns a new wrapper function and runs none of lines 219-309, neither
\* the circuit breaker of line 249 nor the PaddleOCR constructor of line 262.
\* No field of the instance changes.
_get_paddle_ocr(st) == [st |-> st, returned |-> WrapperFunction]

\* _ocr_with_paddle, lines 566-685.  to_array is what converting the image
\* does (line 579 works, or the temp-file route of lines 583-587 works, or
\* that route raises).  The object got at line 590 is not None; being a
\* function it has neither predict nor ocr, so in the recognition thread
\* line 603 raises AttributeError, line 608 raises it again and line 612
\* raises it from inside the handler, which ends the thread with both
\* containers empty: line 629 returns None and lines 632-634 return [].
_ocr_with_paddle(st, to_array, msg) ==
    IF to_array = "raise" THEN Outcome(st, "raise", msg, "error")
    ELSE LET tracked == IF to_array = "tempfile"
                        THEN [st EXCEPT !._temp_files = Min(@ + 1, MaxTempFiles)]
                        ELSE st
             paddle_ocr == _get_paddle_ocr(tracked)
         IN  IF paddle_ocr.returned = NoEngine
             THEN Outcome(paddle_ocr.st, "raise", NotInitialised, "error")
             ELSE Outcome(paddle_ocr.st, "ok", "", "lost")

\* _get_easy_ocr_reader, lines 311-345, then readtext, lines 706-707, inside
\* _ocr_with_easy, lines 687-731.  gpu is what _check_gpu_support answers.
_ocr_with_easy(st, gpu, init, read, msg) ==
    LET gpu_available == gpu /\ ~st._force_cpu_mode
        reader == IF st._easy_ocr_reader # NoEngine THEN Outcome(st, "ok", "", "none")
                  ELSE CASE init = "ok" ->
                              Outcome([st EXCEPT !._easy_ocr_reader =
                                                    IF gpu_available THEN "gpu" ELSE "cpu"],
                                      "ok", "", "none")
                         [] init = "first fails" /\ gpu_available ->
                              Outcome([st EXCEPT !._easy_ocr_reader = "cpu",
                                                 !._force_cpu_mode = TRUE],
                                      "ok", "", "none")
                         [] OTHER -> Outcome(st, "raise", msg, "none")
    IN  IF reader.end = "raise" THEN reader
        ELSE IF read = "raise" THEN Outcome(reader.st, "raise", msg, "none")
        ELSE reader

\* _ocr_image, lines 526-564.  env holds what the libraries do during the
\* call.
_ocr_image(st, env) ==
    LET try_paddle == st._ocr_engine = "paddle" /\ ~st._force_cpu_mode
        paddle == IF try_paddle
                  THEN _ocr_with_paddle(st, env.to_array, env.msg)
                  ELSE Outcome(st, "skipped", "", "skipped")
        after_paddle ==
            IF paddle.end = "raise"
            THEN [paddle.st EXCEPT
                     !._ocr_engine = "easy",
                     !._force_cpu_mode = @ \/ HasCUDA(paddle.msg) \/ HasMemory(paddle.msg)]
            ELSE paddle.st
        easy == _ocr_with_easy(after_paddle, env.gpu, env.init, env.read, env.msg)
        cleared == [easy.st EXCEPT !._force_cpu_mode = TRUE, !._easy_ocr_reader = NoEngine]
        retried == _ocr_with_easy(cleared, env.gpu, env.init2, env.read2, env.msg)
    IN  IF paddle.end = "ok" THEN [paddle EXCEPT !.end = "paddle"]
        ELSE IF easy.end = "ok" THEN [easy EXCEPT !.end = "easy", !.paddle = paddle.paddle,
                                                  !.msg = paddle.msg]
        ELSE IF HasCUDA(easy.msg) \/ HasMemory(easy.msg)
        THEN [retried EXCEPT !.end = IF retried.end = "ok" THEN "easy" ELSE "empty",
                             !.paddle = paddle.paddle, !.msg = paddle.msg]
        ELSE [easy EXCEPT !.end = "empty", !.paddle = paddle.paddle, !.msg = paddle.msg]

Environments ==
    [to_array : {"ok", "tempfile", "raise"},
     msg : LibraryMessages, gpu : BOOLEAN, init : {"ok", "first fails", "fails"},
     read : {"ok", "raise"}, init2 : {"ok", "fails"}, read2 : {"ok", "raise"}]

\* One OCR call on a page image, convert line 960.
OcrImage(env) ==
    /\ LET out == _ocr_image(engines, env)
       IN  /\ engines' = out.st
           /\ ocr_call' = [op |-> "_ocr_image", paddle |-> out.paddle, msg |-> out.msg,
                           easy |-> out.end, before |-> engines]
           /\ lifetime' =
                 [paddle_failed |-> lifetime.paddle_failed
                                       \/ out.paddle \in {"error", "lost"},
                  messages |-> lifetime.messages
                                  \cup (IF out.paddle = "error" THEN {out.msg} ELSE {})]
    /\ UNCHANGED paddleocr_available
    /\ UNCHANGED notEngines

\* convert, lines 847 and 895: an extracted image is saved to a temp file
\* whose path is tracked.
TrackTempFile ==
    /\ engines._temp_files < MaxTempFiles
    /\ engines' = [engines EXCEPT !._temp_files = @ + 1]
    /\ ocr_call' = [NoOcrCall EXCEPT !.op = "convert", !.before = engines]
    /\ UNCHANGED <<paddleocr_available, lifetime>>
    /\ UNCHANGED notEngines

\* (mutant) cleanup that releases resources but keeps the engine mode.
cleanup_keeps_mode(st) ==
    [st EXCEPT !._temp_files = 0, !._paddle_ocr = NoEngine, !._easy_ocr_reader = NoEngine]

\* cleanup, lines 1035-1054.
cleanup(st) ==
    [st EXCEPT !._temp_files = 0, !._paddle_ocr = NoEngine, !._easy_ocr_reader = NoEngine,
               !._ocr_engine = "paddle", !._force_cpu_mode = FALSE]

Cleanup ==
    /\ engines' = cleanup(engines)
    /\ ocr_call' = [NoOcrCall EXCEPT !.op = "cleanup", !.before = engines]
    /\ lifetime' = NewLifetime
    /\ UNCHANGED paddleocr_available
    /\ UNCHANGED notEngines

NextEngines ==
    \/ \E env \in Environments : OcrImage(env)
    \/ TrackTempFile
    \/ Cleanup


(***************************************************************************)
(* CacheManager                                                            *)
(***************************************************************************)
\* Keys the callers use, and the stem of the statistics file, which lies in
\* the same directory under the same *.json pattern.
CacheKeys == {"k1", "k2"}
StatsKey == "cache_stats"
FileStems == CacheKeys \cup {StatsKey}
\* Sizes of the files values are written to, and of the statistics file.
ValueSizes == {3, 4}
StatsFileSize == 1

NoFile == [exists |-> FALSE, size |-> 0]
\* hit_rate as the fraction num/den.
Rate(num, den) == [num |-> num, den |-> den]

\* CacheStats, lines 21-28: a fresh statistics record.
CacheStats == [total_entries |-> 0, total_size_mb |-> 0, hit_count |-> 0, miss_count |-> 0,
               hit_rate |-> Rate(0, 1)]

\* __init__, lines 46-67, on an empty cache directory.  _access_times is kept
\* as the keys in order of their time stamps, oldest first.
EmptyCache == [files |-> [stem \in FileStems |-> NoFile], _memory_cache |-> {},
               _access_times |-> <<>>, stats |-> CacheStats]

\* hits and misses are by how much the call raised hit_count and miss_count;
\* known tells whether set had ever been called with the key before the call,
\* after_set whether the call before this one was a set of the same key that
\* returned True.
\* cleaned is the cache as the call's _cleanup_cache found it, if it ran one.
NoCleanup == [ran |-> FALSE, c |-> EmptyCache]
NoCacheCall == [op |-> "none", key |-> "", result |-> "none", hits |-> 0, misses |-> 0,
                known |-> FALSE, after_set |-> FALSE, cleaned |-> NoCleanup]

CacheManagerInit ==
    /\ max_cache_size_mb = MaxCacheSize
    /\ cache = EmptyCache
    /\ cache_call = NoCacheCall
    /\ ever_set = {}

\* _update_hit_rate, lines 118-124.
_update_hit_rate(stats) ==
    LET total_requests == stats.hit_count + stats.miss_count
    IN  [stats EXCEPT !.hit_rate = IF total_requests > 0
                                   THEN Rate(stats.hit_count, total_requests)
                                   ELSE Rate(0, 1)]

Without(seq, key) == SelectSeq(seq, LAMBDA k : k # key)
\* self._access_times[key] = time.time()
Touch(seq, key) == Append(Without(seq, key), key)

\* get, lines 126-164.  The result is the cache afterwards and whether the
\* call was a hit.
get(c, key) ==
    IF key \in c._memory_cache
    THEN [c |-> [c EXCEPT !._access_times = Touch(@, key),
                          !.stats = _update_hit_rate([@ EXCEPT !.hit_count = @ + 1])],
          hit |-> TRUE]
    ELSE IF c.files[key].exists /\ c.files[key].size > 0
    THEN [c |-> [c EXCEPT !._access_times = Touch(@, key),
                          !._memory_cache = @ \cup {key},
                          !.stats = _update_hit_rate([@ EXCEPT !.hit_count = @ + 1])],
          hit |-> TRUE]
    ELSE [c |-> [c EXCEPT !.stats = _update_hit_rate([@ EXCEPT !.miss_count = @ + 1])],
          hit |-> FALSE]

\* delete, lines 205-236.
delete(c, key) ==
    LET forgotten == [c EXCEPT !._memory_cache = @ \ {key},
                               !._access_times = Without(@, key)]
    IN  IF c.files[key].exists
        THEN [forgotten EXCEPT
                 !.files[key] = NoFile,
                 !.stats.total_entries = IF @ > 0 THEN @ - 1 ELSE 0,
                 !.stats.total_size_mb = IF @ > c.files[key].size
                                         THEN @ - c.files[key].size ELSE 0]
        ELSE forgotten

\* _cleanup_cache, lines 242-246: the *.json files of the directory, sorted
\* by access time, a file without one counting as time 0.
CleanupOrder(c) ==
    LET untracked == SelectSeq(<<StatsKey, "k1", "k2">>,
                               LAMBDA k : c.files[k].exists
                                             /\ \A j \in 1..Len(c._access_times) :
                                                   c._access_times[j] # k)
    IN  untracked \o SelectSeq(c._access_times, LAMBDA k : c.files[k].exists)

\* _cleanup_cache, lines 249-256: delete in that order until the recorded
\* total size is at most 60% of the maximum.
RECURSIVE EvictUntilTarget(_, _)
EvictUntilTarget(c, cache_files) ==
    IF cache_files = <<>> \/ c.stats.total_size_mb * 10 <= max_cache_size_mb * 6
    THEN c
    ELSE EvictUntilTarget(delete(c, Head(cache_files)), Tail(cache_files))

\* _cleanup_cache, lines 238-261.
_cleanup_cache(c) == EvictUntilTarget(c, CleanupOrder(c))

\* set, lines 166-203.  written is FALSE when json.dump raises on the value:
\* the file has been opened for writing (and so emptied) and set returns
\* False without touching the statistics.
Stored(c, key, size, memory_only) ==
    LET stored == [c EXCEPT !._access_times = Touch(@, key),
                            !._memory_cache = @ \cup {key}]
    IN  IF memory_only THEN stored
        ELSE [stored EXCEPT
                 !.files[key] = [exists |-> TRUE, size |-> size],
                 !.stats.total_entries = @ + 1,
                 !.stats.total_size_mb = @ + size]

\* set, line 196: the test that starts a cleanup.
NeedsCleanup(c) == c.stats.total_size_mb * 10 > max_cache_size_mb * 8

set(c, key, size, memory_only, written) ==
    LET stored == [c EXCEPT !._access_times = Touch(@, key),
                            !._memory_cache = @ \cup {key}]
        counted == Stored(c, key, size, memory_only)
    IN  IF ~memory_only /\ ~written
        THEN [stored EXCEPT !.files[key] = [exists |-> TRUE, size |-> 0]]
        ELSE IF NeedsCleanup(counted)
        THEN _cleanup_cache(counted)
        ELSE counted

\* _save_stats, lines 109-116.
_save_stats(c) == [c EXCEPT !.files[StatsKey] = [exists |-> TRUE, size |-> StatsFileSize]]

Record(op, key, result, after, cleaned) ==
    [op |-> op, key |-> key, result |-> result, cleaned |-> cleaned,
     hits |-> after.stats.hit_count - cache.stats.hit_count,
     misses |-> after.stats.miss_count - cache.stats.miss_count,
     known |-> key \in ever_set,
     after_set |-> cache_call.op = "set" /\ cache_call.key = key /\ cache_call.result = "True"]

CacheGet(key) ==
    /\ cache.stats.hit_count + cache.stats.miss_count < MaxRequests
    /\ cache' = get(cache, key).c
    /\ cache_call' = Record("get", key, IF get(cache, key).hit THEN "hit" ELSE "miss", cache',
                          NoCleanup)
    /\ UNCHANGED <<max_cache_size_mb, ever_set>>
    /\ UNCHANGED notCache

CacheSet(key, size, memory_only, written) ==
    /\ cache.stats.total_entries < MaxEntries
    /\ cache' = set(cache, key, size, memory_only, written)
    /\ cache_call' = Record("set", key, IF ~memory_only /\ ~written THEN "False" ELSE "True",
                            cache',
                            IF (memory_only \/ written)
                                  /\ NeedsCleanup(Stored(cache, key, size, memory_only))
                            THEN [ran |-> TRUE, c |-> Stored(cache, key, size, memory_only)]
                            ELSE NoCleanup)
    /\ ever_set' = ever_set \cup {key}
    /\ UNCHANGED max_cache_size_mb
    /\ UNCHANGED notCache

CacheDelete(key) ==
    /\ cache' = delete(cache, key)
    /\ cache_call' = Record("delete", key, "True", cache', NoCleanup)
    /\ UNCHANGED <<max_cache_size_mb, ever_set>>
    /\ UNCHANGED notCache

\* optimize_cache, lines 316-350.
optimize_cache ==
    /\ cache' = _save_stats(_cleanup_cache(cache))
    /\ cache_call' = Record("optimize_cache", "", "True", cache',
                            [ran |-> TRUE, c |-> cache])
    /\ UNCHANGED <<max_cache_size_mb, ever_set>>
    /\ UNCHANGED notCache

\* clear_all, lines 264-289.
clear_all ==
    /\ cache' = _save_stats([EmptyCache EXCEPT !.files[StatsKey] = cache.files[StatsKey]])
    /\ cache_call' = Record("clear_all", "", "True", cache', NoCleanup)
    /\ UNCHANGED <<max_cache_size_mb, ever_set>>
    /\ UNCHANGED notCache

\* The summed size of the *.json files other than cache_stats.json.
EntryFilesSize(c) ==
    LET size(k) == IF c.files[k].exists THEN c.files[k].size ELSE 0
    IN  size("k1") + size("k2")

\* get_cache_stats, lines 291-314: total_size_mb is measured anew.
get_cache_stats ==
    /\ cache' = [cache EXCEPT !.stats.total_size_mb = EntryFilesSize(cache)]
    /\ cache_call' = Record("get_cache_stats", "", "True", cache', NoCleanup)
    /\ UNCHANGED <<max_cache_size_mb, ever_set>>
    /\ UNCHANGED notCache

NextCache ==
    \/ \E key \in FileStems : CacheGet(key)
    \/ \E key \in CacheKeys : \E size \in ValueSizes : \E memory_only, written \in BOOLEAN :
          CacheSet(key, size, memory_only, written)
    \/ \E key \in CacheKeys : CacheDelete(key)
    \/ optimize_cache
    \/ clear_all
    \/ get_cache_stats

(***************************************************************************)
(* OCRHealthChecker (converters/ocr_health_checker.py)                     *)
(***************************************************************************)
\* Response times, in seconds, update_stats is called with.
ResponseTimes == {1, 150}
FastResponse == CHOOSE t \in ResponseTimes : \A u \in ResponseTimes : t <= u
SlowResponse == CHOOSE t \in ResponseTimes : \A u \in ResponseTimes : u <= t

\* check_ocr_health, line 103: list(self.operation_history)[-10:].
RecentWindow == 10

NoReport == [status |-> "none"]

\* __init__, lines 21-37.  max_history stands for the constructor's default.
OCRHealthCheckerInit ==
    /\ max_history = MaxHistory
    /\ operation_history = <<>>
    /\ monitoring_active = FALSE
    /\ total_operations = 0
    /\ successful_operations = 0
    /\ failed_operations = 0
    /\ total_response_time = 0
    /\ health_report = NoReport
    /\ recorded = <<>>
    /\ slow_operations = 0

\* deque(maxlen=max_history).append: the oldest record falls out of a full deque.
DequeAppend(history, record, maxlen) ==
    IF maxlen = 0 THEN <<>>
    ELSE IF Len(history) < maxlen THEN Append(history, record)
    ELSE Append(Tail(history), record)

\* seq[-n:]
LastN(seq, n) == SubSeq(seq, IF Len(seq) > n THEN Len(seq) - n + 1 ELSE 1, Len(seq))

Successes(ops) == Cardinality({i \in 1..Len(ops) : ops[i].success})

\* A rate num / den compared with a threshold given in tenths.
RateBelow(num, den, tenths) == num * 10 < tenths * den

\* start_monitoring, lines 39-44 (start_time is not modelled).
start_monitoring ==
    /\ monitoring_active' = TRUE
    /\ UNCHANGED <<max_history, operation_history, total_operations, successful_operations,
                   failed_operations, total_response_time, health_report, recorded,
                   slow_operations>>
    /\ UNCHANGED notHealth

\* stop_monitoring, lines 46-50.
stop_monitoring ==
    /\ monitoring_active' = FALSE
    /\ UNCHANGED <<max_history, operation_history, total_operations, successful_operations,
                   failed_operations, total_response_time, health_report, recorded,
                   slow_operations>>
    /\ UNCHANGED notHealth

\* update_stats, lines 52-78.  Of a record only 'success' is ever read back, so
\* a record is modelled by that field.
update_stats(response_time, success) ==
    /\ total_operations < MaxOperations
    /\ response_time = FastResponse \/ slow_operations < MaxSlow
    /\ IF ~monitoring_active
       THEN UNCHANGED <<operation_history, total_operations, successful_operations,
                        failed_operations, total_response_time, health_report, recorded,
                        slow_operations>>
       ELSE LET operation_record == [success |-> success]
            IN /\ operation_history' = DequeAppend(operation_history, operation_record,
                                                   max_history)
               /\ total_operations' = total_operations + 1
               /\ total_response_time' = total_response_time + response_time
               /\ successful_operations' = successful_operations + (IF success THEN 1 ELSE 0)
               /\ failed_operations' = failed_operations + (IF success THEN 0 ELSE 1)
               /\ recorded' = Append(recorded, operation_record)
               /\ slow_operations' =
                    slow_operations + (IF response_time = FastResponse THEN 0 ELSE 1)
               /\ health_report' = NoReport
    /\ UNCHANGED <<max_history, monitoring_active>>
    /\ UNCHANGED notHealth

\* _determine_health_status, lines 130-155.  A rate is a pair <<num, den>>; the
\* average response time is total / count.
_determine_health_status(success_rate, recent_success_rate, avg_response_time) ==
    IF total_operations = 0 THEN "healthy"
    ELSE IF \/ RateBelow(recent_success_rate[1], recent_success_rate[2], 3)
            \/ avg_response_time[1] > 30 * avg_response_time[2]
         THEN "critical"
    ELSE IF \/ RateBelow(success_rate[1], success_rate[2], 7)
            \/ RateBelow(recent_success_rate[1], recent_success_rate[2], 6)
            \/ avg_response_time[1] > 10 * avg_response_time[2]
         THEN "warning"
    ELSE "healthy"

\* _generate_alerts, lines 157-217: the <<level, type>> of each alert, in order.
_generate_alerts(success_rate, recent_success_rate, avg_response_time) ==
    IF total_operations = 0 THEN <<>>
    ELSE (IF RateBelow(success_rate[1], success_rate[2], 3)
          THEN << <<"critical", "success_rate">> >>
          ELSE IF RateBelow(success_rate[1], success_rate[2], 7)
          THEN << <<"warning", "success_rate">> >>
          ELSE <<>>)
         \o
         (IF RateBelow(recent_success_rate[1], recent_success_rate[2], 3)
          THEN << <<"critical", "recent_success_rate">> >>
          ELSE IF RateBelow(recent_success_rate[1], recent_success_rate[2], 6)
          THEN << <<"warning", "recent_success_rate">> >>
          ELSE <<>>)
         \o
         (IF avg_response_time[1] > 30 * avg_response_time[2]
          THEN << <<"critical", "response_time">> >>
          ELSE IF avg_response_time[1] > 10 * avg_response_time[2]
          THEN << <<"warning", "response_time">> >>
          ELSE <<>>)

\* The mistake of taking the recent rate over the whole retained history.
RecentOperations_whole_history == operation_history

\* check_ocr_health, line 103.
RecentOperations == LastN(operation_history, RecentWindow)

\* check_ocr_health, lines 80-128 (uptime is not modelled).  0.0 is <<0, 1>>.
check_ocr_health ==
    /\ health_report = NoReport
    /\ LET success_rate == IF total_operations > 0
                           THEN <<successful_operations, total_operations>> ELSE <<0, 1>>
           avg_response_time == IF total_operations > 0
                                THEN <<total_response_time, total_operations>> ELSE <<0, 1>>
           recent_operations == RecentOperations
           recent_success_rate == IF Len(recent_operations) > 0
                                  THEN <<Successes(recent_operations), Len(recent_operations)>>
                                  ELSE <<0, 1>>
       IN health_report' =
            [status |-> _determine_health_status(success_rate, recent_success_rate,
                                                 avg_response_time),
             total_operations |-> total_operations,
             successful_operations |-> successful_operations,
             failed_operations |-> failed_operations,
             success_rate |-> success_rate,
             recent_success_rate |-> recent_success_rate,
             avg_response_time |-> avg_response_time,
             alerts |-> _generate_alerts(success_rate, recent_success_rate,
                                         avg_response_time),
             monitoring_active |-> monitoring_active]
    /\ UNCHANGED <<max_history, operation_history, monitoring_active, total_operations,
                   successful_operations, failed_operations, total_response_time, recorded,
                   slow_operations>>
    /\ UNCHANGED notHealth

\* reset_statistics, lines 237-246.
reset_statistics ==
    /\ operation_history' = <<>>
    /\ total_operations' = 0
    /\ successful_operations' = 0
    /\ failed_operations' = 0
    /\ total_response_time' = 0
    /\ recorded' = <<>>
    /\ slow_operations' = 0
    /\ health_report' = NoReport
    /\ UNCHANGED <<max_history, monitoring_active>>
    /\ UNCHANGED notHealth

NextHealth ==
    \/ start_monitoring
    \/ stop_monitoring
    \/ \E response_time \in ResponseTimes : \E success \in BOOLEAN :
          update_stats(response_time, success)
    \/ check_ocr_health
    \/ reset_statistics

(***************************************************************************)
(* ConfigValidator (config/config_validator.py)                            *)
(***************************************************************************)
\* JSON values.  A float is held in tenths; a bool counts as an int, as
\* isinstance(True, int) holds in Python.
IntValue(n) == [t |-> "int", v |-> n, s |-> ""]
FloatValue(tenths) == [t |-> "float", v |-> tenths, s |-> ""]
BoolValue(b) == [t |-> "bool", v |-> IF b THEN 1 ELSE 0, s |-> ""]
StrValue(text) == [t |-> "str", v |-> 0, s |-> text]
Null == [t |-> "null", v |-> 0, s |-> ""]
Absent == [t |-> "absent", v |-> 0, s |-> ""]

\* The keys of validation_rules, lines 37-50, in the order of the dict.
FieldOrder == <<"gpu_memory_limit", "cpu_threads", "batch_size", "max_image_size",
                "ocr_confidence_threshold", "enable_gpu", "fallback_to_cpu", "cache_enabled",
                "cache_size_mb", "timeout_seconds", "retry_attempts", "log_level">>
Fields == {FieldOrder[i] : i \in 1..Len(FieldOrder)}

\* self.default_config, lines 22-35.
default_config ==
    [field \in Fields |->
       CASE field = "gpu_memory_limit" -> IntValue(4096)
         [] field = "cpu_threads" -> IntValue(4)
         [] field = "batch_size" -> IntValue(5)
         [] field = "max_image_size" -> IntValue(2048)
         [] field = "ocr_confidence_threshold" -> FloatValue(6)
         [] field = "enable_gpu" -> BoolValue(TRUE)
         [] field = "fallback_to_cpu" -> BoolValue(TRUE)
         [] field = "cache_enabled" -> BoolValue(TRUE)
         [] field = "cache_size_mb" -> IntValue(512)
         [] field = "timeout_seconds" -> IntValue(300)
         [] field = "retry_attempts" -> IntValue(3)
         [] field = "log_level" -> StrValue("INFO")]

NumberRule(type, min, max) == [type |-> type, min |-> min, max |-> max, choices |-> <<>>]

\* self.validation_rules, lines 37-50.
validation_rules ==
    [field \in Fields |->
       CASE field = "gpu_memory_limit" -> NumberRule("int", 512, 32768)
         [] field = "cpu_threads" -> NumberRule("int", 1, 32)
         [] field = "batch_size" -> NumberRule("int", 1, 20)
         [] field = "max_image_size" -> NumberRule("int", 512, 4096)
         [] field = "ocr_confidence_threshold" -> NumberRule("float", 0, 10)
         [] field = "cache_size_mb" -> NumberRule("int", 64, 2048)
         [] field = "timeout_seconds" -> NumberRule("int", 30, 3600)
         [] field = "retry_attempts" -> NumberRule("int", 1, 10)
         [] field = "log_level" ->
              [type |-> "str", min |-> 0, max |-> 0,
               choices |-> <<"DEBUG", "INFO", "WARNING", "ERROR">>]
         [] OTHER -> [type |-> "bool", min |-> 0, max |-> 0, choices |-> <<>>]]

\* isinstance(value, expected_type)
isinstance(value, type) ==
    IF type = "int" THEN value.t \in {"int", "bool"} ELSE value.t = type

\* config.get(field)
Get(config, field) == IF config[field] = Absent THEN Null ELSE config[field]

IsNumber(type) == type \in {"int", "float"}
Chosen(rules, value) == \E i \in 1..Len(rules.choices) : rules.choices[i] = value.s

\* Values a configuration file can give a field.
FieldValues ==
    {IntValue(n) : n \in {0, 5, 100, 512, 1000, 4096, 20000, 40000}}
      \cup {FloatValue(-5), FloatValue(6), FloatValue(15)}
      \cup {BoolValue(TRUE), BoolValue(FALSE)}
      \cup {StrValue("INFO"), StrValue("DEBUG"), StrValue("TRACE")}
      \cup {Null, Absent}

\* The mappings the model starts from: the defaults with one field set to any
\* value, the empty mapping, and the mapping of nulls.
Configs ==
    {[default_config EXCEPT ![field] = value] : field \in Fields, value \in FieldValues}
      \cup {[field \in Fields |-> Absent], [field \in Fields |-> Null]}

NoValidation == [of_fixed |-> FALSE, result |-> [valid |-> TRUE, issues |-> <<>>,
                                                  warnings |-> <<>>, config |-> <<>>],
                 called |-> FALSE]
NoFix == [called |-> FALSE, input_fixed |-> FALSE, repaired |-> FALSE,
          input |-> <<>>, output |-> <<>>]

\* __init__, lines 20-50, and the caller's mapping and file.
ConfigValidatorInit ==
    /\ validator_config \in Configs
    /\ config_is_fixed = FALSE
    /\ validator_file = [kind |-> "missing", config |-> default_config, fixed |-> FALSE]
    /\ validate_call = NoValidation
    /\ fix_call = NoFix

ConfigValidatorIdle ==
    /\ validator_config = default_config
    /\ config_is_fixed = FALSE
    /\ validator_file = [kind |-> "missing", config |-> default_config, fixed |-> FALSE]
    /\ validate_call = NoValidation
    /\ fix_call = NoFix

Issue(field, kind, current_value, suggested_value) ==
    [field |-> field, issue |-> kind, current_value |-> current_value,
     suggested_value |-> suggested_value]

\* The mistake of keeping a value of the wrong type.
FixField_keeps_wrong_type(field, value) ==
    LET rules == validation_rules[field]
    IN IF value = Null THEN default_config[field]
       ELSE IF ~isinstance(value, rules.type) THEN value
       ELSE value

\* fix_config_issues, lines 198-226: the body of the loop for one field.
FixField(field, value) ==
    LET rules == validation_rules[field]
        default_value == default_config[field]
        ranged == IF IsNumber(rules.type) /\ value.v < rules.min
                  THEN [t |-> rules.type, v |-> rules.min, s |-> ""]
                  ELSE IF IsNumber(rules.type) /\ value.v > rules.max
                  THEN [t |-> rules.type, v |-> rules.max, s |-> ""]
                  ELSE value
    IN IF value = Null THEN default_value
       ELSE IF ~isinstance(value, rules.type) THEN default_value
       ELSE IF rules.choices # <<>> /\ ~Chosen(rules, value)
            THEN StrValue(rules.choices[1])
       ELSE ranged

\* fix_config_issues, lines 185-234, as a function of the mapping.
FixedConfig(config) == [field \in Fields |-> FixField(field, Get(config, field))]

\* _validate_all_fields, lines 126-183: the issues of one field.
FieldIssues(field, value) ==
    LET rules == validation_rules[field]
    IN IF value = Null
       THEN <<Issue(field, "missing", Null, default_config[field])>>
       ELSE IF ~isinstance(value, rules.type)
       THEN <<Issue(field, "type", value, default_config[field])>>
       ELSE (IF IsNumber(rules.type) /\ value.v < rules.min
             THEN <<Issue(field, "min", value, [t |-> rules.type, v |-> rules.min, s |-> ""])>>
             ELSE IF IsNumber(rules.type) /\ value.v > rules.max
             THEN <<Issue(field, "max", value, [t |-> rules.type, v |-> rules.max, s |-> ""])>>
             ELSE <<>>)
            \o
            (IF rules.choices # <<>> /\ ~Chosen(rules, value)
             THEN <<Issue(field, "choices", value, StrValue(rules.choices[1]))>>
             ELSE <<>>)

RECURSIVE IssuesFrom(_, _)
IssuesFrom(config, i) ==
    IF i > Len(FieldOrder) THEN <<>>
    ELSE (IF FieldOrder[i] = "gpu_memory_limit" THEN <<>>
          ELSE FieldIssues(FieldOrder[i], Get(config, FieldOrder[i])))
         \o IssuesFrom(config, i + 1)

\* _validate_all_fields, lines 120-183.
_validate_all_fields(config) == IssuesFrom(config, 1)

\* _load_config, lines 263-285: the mapping read from the file; the defaults
\* when the file is missing or cannot be parsed.
_load_config(file) ==
    IF file.kind \in {"missing", "unparsable"}
    THEN [kind |-> "mapping", config |-> default_config]
    ELSE [kind |-> file.kind, config |-> file.config]

\* The mistake of reporting a limit below 512 as an issue and warning below 2048.
GpuMemoryCheck_low_is_issue(gpu_memory) ==
    IF ~isinstance(gpu_memory, "int") \/ gpu_memory.v < 512
    THEN [issues |-> <<Issue("gpu_memory_limit", "not_int", gpu_memory,
                             default_config["gpu_memory_limit"])>>,
          warnings |-> <<>>]
    ELSE IF gpu_memory.v < 2048
    THEN [issues |-> <<>>,
          warnings |-> <<Issue("gpu_memory_limit", "too_low", gpu_memory, IntValue(2048))>>]
    ELSE IF gpu_memory.v > 16384
    THEN [issues |-> <<>>,
          warnings |-> <<Issue("gpu_memory_limit", "too_high", gpu_memory, IntValue(8192))>>]
    ELSE [issues |-> <<>>, warnings |-> <<>>]

\* validate_gpu_memory_config, lines 77-98: the check of gpu_memory_limit.
GpuMemoryCheck(gpu_memory) ==
    IF ~isinstance(gpu_memory, "int")
    THEN [issues |-> <<Issue("gpu_memory_limit", "not_int", gpu_memory,
                             default_config["gpu_memory_limit"])>>,
          warnings |-> <<>>]
    ELSE IF gpu_memory.v < 512
    THEN [issues |-> <<>>,
          warnings |-> <<Issue("gpu_memory_limit", "too_low", gpu_memory, IntValue(2048))>>]
    ELSE IF gpu_memory.v > 16384
    THEN [issues |-> <<>>,
          warnings |-> <<Issue("gpu_memory_limit", "too_high", gpu_memory, IntValue(8192))>>]
    ELSE [issues |-> <<>>, warnings |-> <<>>]

\* validate_gpu_memory_config, lines 52-118.
ValidationResult(file) ==
    LET loaded == _load_config(file)
        config == loaded.config
        gpu_memory == IF config["gpu_memory_limit"] = Absent
                      THEN default_config["gpu_memory_limit"]
                      ELSE config["gpu_memory_limit"]
        warnings == GpuMemoryCheck(gpu_memory).warnings
        issues == GpuMemoryCheck(gpu_memory).issues \o _validate_all_fields(config)
    IN IF loaded.kind # "mapping"
       THEN \* config.get raises: the handler of lines 107-118
            [valid |-> FALSE, issues |-> <<Issue("general", "failed", Null, Null)>>,
             warnings |-> <<>>, config |-> default_config]
       ELSE [valid |-> issues = <<>>, issues |-> issues, warnings |-> warnings,
             config |-> config]

validate_gpu_memory_config ==
    /\ validate_call' = [of_fixed |-> validator_file.kind = "mapping" /\ validator_file.fixed,
                         result |-> ValidationResult(validator_file), called |-> TRUE]
    /\ UNCHANGED <<validator_config, config_is_fixed, validator_file, fix_call>>
    /\ UNCHANGED notValidator

\* fix_config_issues, lines 185-234, applied to the caller's mapping.
fix_config_issues ==
    /\ validator_config' = FixedConfig(validator_config)
    /\ config_is_fixed' = TRUE
    /\ fix_call' = [called |-> TRUE, input_fixed |-> config_is_fixed,
                    repaired |-> fix_call.repaired \/ validator_config' # validator_config,
                    input |-> validator_config, output |-> validator_config']
    /\ UNCHANGED <<validator_file, validate_call>>
    /\ UNCHANGED notValidator

\* save_config, lines 236-261.  A failure before open() leaves the file as it
\* was; one during json.dump leaves a truncated file.
save_config(outcome) ==
    /\ validator_file' =
         CASE outcome = "written" ->
                [kind |-> "mapping", config |-> validator_config, fixed |-> config_is_fixed]
           [] outcome = "dump_failed" ->
                [kind |-> "unparsable", config |-> default_config, fixed |-> FALSE]
           [] OTHER -> validator_file
    /\ UNCHANGED <<validator_config, config_is_fixed, validate_call, fix_call>>
    /\ UNCHANGED notValidator

\* A file written by other means that holds JSON which is not an object.
WriteOtherJson ==
    /\ validator_file' = [kind |-> "not_a_mapping", config |-> default_config, fixed |-> FALSE]
    /\ UNCHANGED <<validator_config, config_is_fixed, validate_call, fix_call>>
    /\ UNCHANGED notValidator

NextValidator ==
    \/ validate_gpu_memory_config
    \/ fix_config_issues
    \/ \E outcome \in {"written", "open_failed", "dump_failed"} : save_config(outcome)
    \/ WriteOtherJson

(***************************************************************************)
(* ConfigManager (converters/config_manager.py)                            *)
(***************************************************************************)
\* Values given to a setting.  2 is the default of both settings modelled.
SettingValues == {2, 3}

\* A ProcessingConfig, reduced to one setting of two of its sections:
\* clahe.clip_limit (line 16) and waifu2x.default_scale (line 70).
ProcessingConfigs ==
    [clahe : [clip_limit : SettingValues], waifu2x : [default_scale : SettingValues]]

\* ProcessingConfig(), lines 172-200.
ProcessingConfig == [clahe |-> [clip_limit |-> 2], waifu2x |-> [default_scale |-> 2]]

NoConfig == [clahe |-> [clip_limit |-> 0], waifu2x |-> [default_scale |-> 0]]

\* What processing_config.json can hold: nothing (no file), text that is not
\* JSON, JSON that _dict_to_config rejects, or a saved configuration.
ConfigFiles ==
    {[kind |-> k, config |-> NoConfig] : k \in {"missing", "unparsable", "rejected"}}
      \cup {[kind |-> "saved", config |-> c] : c \in ProcessingConfigs}

NoLoad == [called |-> FALSE, cached |-> FALSE, before |-> "none", saved |-> FALSE,
           writable |-> FALSE,
           after |-> [kind |-> "missing", config |-> NoConfig], result |-> NoConfig]

NoUpdate == [called |-> FALSE, ok |-> FALSE, before |-> NoConfig, after |-> NoConfig]

\* __init__, lines 206-215.
ConfigManagerInit ==
    /\ config_file \in ConfigFiles
    /\ _config = NoConfig
    /\ file_reads = 0
    /\ load_call = NoLoad
    /\ update_call = NoUpdate

ConfigManagerIdle ==
    /\ config_file = [kind |-> "missing", config |-> NoConfig]
    /\ _config = NoConfig
    /\ file_reads = 0
    /\ load_call = NoLoad
    /\ update_call = NoUpdate

SaveOutcomes == {"written", "open_failed", "dump_failed"}

\* save_config, lines 237-247: the file and self._config after the call.  A
\* failure of open() leaves the file alone, one of json.dump a truncated file.
Saved(config, outcome, file, cached) ==
    CASE outcome = "written" ->
           [file |-> [kind |-> "saved", config |-> config], _config |-> config, ok |-> TRUE]
      [] outcome = "dump_failed" ->
           [file |-> [kind |-> "unparsable", config |-> NoConfig], _config |-> cached,
            ok |-> FALSE]
      [] OTHER -> [file |-> file, _config |-> cached, ok |-> FALSE]

\* The mistake of writing the defaults back after a failed load.
Loaded_saves_on_failure(file, outcome) ==
    IF file.kind = "saved"
    THEN [file |-> file, _config |-> file.config, read |-> TRUE, saved |-> FALSE]
    ELSE LET s == Saved(ProcessingConfig, outcome, file, ProcessingConfig)
         IN [file |-> s.file, _config |-> ProcessingConfig, read |-> file.kind # "missing",
             saved |-> s.ok]

\* load_config, lines 221-233: the file, self._config, whether the file was
\* read and whether it was written, when nothing is cached.
Loaded(file, outcome) ==
    IF file.kind = "saved"
    THEN [file |-> file, _config |-> file.config, read |-> TRUE, saved |-> FALSE]
    ELSE IF file.kind = "missing"
    THEN LET s == Saved(ProcessingConfig, outcome, file, ProcessingConfig)
         IN [file |-> s.file, _config |-> ProcessingConfig, read |-> FALSE, saved |-> s.ok]
    ELSE \* json.load or _dict_to_config raises: the handler of lines 230-232
         [file |-> file, _config |-> ProcessingConfig, read |-> TRUE, saved |-> FALSE]

\* load_config, lines 217-235.
load_config(outcome) ==
    /\ IF _config # NoConfig
       THEN /\ load_call' = [called |-> TRUE, cached |-> TRUE, before |-> config_file.kind,
                             saved |-> FALSE, writable |-> outcome = "written",
                             after |-> config_file, result |-> _config]
            /\ UNCHANGED <<config_file, _config, file_reads>>
       ELSE LET l == Loaded(config_file, outcome)
            IN /\ config_file' = l.file
               /\ _config' = l._config
               /\ file_reads' = file_reads + (IF l.read THEN 1 ELSE 0)
               /\ load_call' = [called |-> TRUE, cached |-> FALSE,
                                before |-> config_file.kind, saved |-> l.saved,
                                writable |-> outcome = "written",
                                after |-> l.file, result |-> l._config]
    /\ UNCHANGED update_call
    /\ UNCHANGED notManager

\* update_config, lines 249-269, with one keyword argument section={sub_key: value}.
\* The cached object is changed in place before it is saved.
update_config(section, sub_key, value, load_outcome, outcome) ==
    LET l == IF _config # NoConfig
             THEN [file |-> config_file, _config |-> _config, read |-> FALSE]
             ELSE Loaded(config_file, load_outcome)
        config == l._config
        changed == IF section \in DOMAIN config /\ sub_key \in DOMAIN config[section]
                   THEN [config EXCEPT ![section][sub_key] = value]
                   ELSE config
        s == Saved(changed, outcome, l.file, changed)
    IN /\ config_file' = s.file
       /\ _config' = s._config
       /\ file_reads' = file_reads + (IF l.read THEN 1 ELSE 0)
       /\ update_call' = [called |-> TRUE, ok |-> s.ok, before |-> config,
                           after |-> s._config]
       /\ UNCHANGED load_call
       /\ UNCHANGED notManager

\* reset_to_default, lines 271-278.
reset_to_default(outcome) ==
    LET s == Saved(ProcessingConfig, outcome, config_file, _config)
    IN /\ config_file' = s.file
       /\ _config' = s._config
       /\ UNCHANGED <<file_reads, load_call, update_call>>
       /\ UNCHANGED notManager

\* Another program rewrites processing_config.json.
FileRewritten(file) ==
    /\ config_file' = file
    /\ UNCHANGED <<_config, file_reads, load_call, update_call>>
    /\ UNCHANGED notManager

NextManager ==
    \/ \E outcome \in SaveOutcomes : load_config(outcome)
    \/ \E section \in {"clahe", "waifu2x", "unknown"} :
         \E sub_key \in {"clip_limit", "default_scale"} : \E value \in SettingValues :
           \E load_outcome, outcome \in SaveOutcomes :
              update_config(section, sub_key, value, load_outcome, outcome)
    \/ \E outcome \in SaveOutcomes : reset_to_default(outcome)
    \/ \E file \in ConfigFiles : FileRewritten(file)

(***************************************************************************)
(* retry_file_processing (converters/retry_manager.py)                     *)
(***************************************************************************)
\* What one invocation of the wrapped function does: it returns, or raises an
\* exception of one of these classes.  FileNotFoundError is a subclass of
\* OSError, IOError is OSError itself, KeyboardInterrupt is no Exception.
Returns == "returns"
RaisedKinds == {"OSError", "FileNotFoundError", "RuntimeError", "ValueError",
                "KeyboardInterrupt"}

\* The mistake of retrying after every Exception, as retry_ocr_init does.
RetryableKinds_every_exception == RaisedKinds \ {"KeyboardInterrupt"}

\* except (IOError, OSError, RuntimeError), line 162.
RetryableKinds == {"OSError", "FileNotFoundError", "RuntimeError"}

\* delay = 0.5 and backoff = 1.5 (line 146), as fractions <<num, den>>.
DefaultDelay == <<1, 2>>
DefaultBackoff == <<3, 2>>

\* The decorator applied with max_retries, and no call in progress.
RetryFileProcessingInit ==
    /\ max_retries \in -1..MaxRetries
    /\ retry_pc = "idle"
    /\ attempt = 0
    /\ last_exception = "None"
    /\ current_delay = DefaultDelay
    /\ invocations = <<>>
    /\ retry_result = "none"

RetryFileProcessingIdle ==
    /\ max_retries = 2
    /\ retry_pc = "idle"
    /\ attempt = 0
    /\ last_exception = "None"
    /\ current_delay = DefaultDelay
    /\ invocations = <<>>
    /\ retry_result = "none"

\* wrapper, lines 155-159 and 177: a call enters the loop; with an empty range
\* it falls through to 'raise last_exception', which raises TypeError for None.
wrapper ==
    /\ retry_pc \in {"idle", "returned", "raised"}
    /\ attempt' = 0
    /\ last_exception' = "None"
    /\ current_delay' = DefaultDelay
    /\ invocations' = <<>>
    /\ IF 0 < max_retries + 1
       THEN retry_pc' = "calling" /\ retry_result' = "none"
       ELSE retry_pc' = "raised" /\ retry_result' = "TypeError"
    /\ UNCHANGED max_retries
    /\ UNCHANGED notRetry

\* wrapper, lines 160-175: one pass of the loop body, up to time.sleep.
Attempt(outcome) ==
    /\ retry_pc = "calling"
    /\ invocations' = Append(invocations, outcome)
    /\ IF outcome = Returns
       THEN /\ retry_pc' = "returned"
            /\ retry_result' = Returns
            /\ UNCHANGED last_exception
       ELSE IF outcome \in RetryableKinds
       THEN /\ last_exception' = outcome
            /\ IF attempt < max_retries
               THEN retry_pc' = "sleeping" /\ UNCHANGED retry_result
               ELSE \* the range is exhausted: raise last_exception, line 177
                    retry_pc' = "raised" /\ retry_result' = outcome
       ELSE /\ retry_pc' = "raised"
            /\ retry_result' = outcome
            /\ UNCHANGED last_exception
    /\ UNCHANGED <<max_retries, attempt, current_delay>>
    /\ UNCHANGED notRetry

\* wrapper, lines 168-169: time.sleep returns; the next pass begins.
Sleep ==
    /\ retry_pc = "sleeping"
    /\ current_delay' = <<current_delay[1] * DefaultBackoff[1],
                          current_delay[2] * DefaultBackoff[2]>>
    /\ attempt' = attempt + 1
    /\ retry_pc' = "calling"
    /\ UNCHANGED <<max_retries, last_exception, invocations, retry_result>>
    /\ UNCHANGED notRetry

NextRetry ==
    \/ wrapper
    \/ \E outcome \in RaisedKinds \cup {Returns} : Attempt(outcome)
    \/ Sleep

(***************************************************************************)
(* PluginManager of the enhancement plugins                                *)
(* (converters/enhancement_plugins.py)                                     *)
(***************************************************************************)
\* PluginInfo of each plugin class: the four built-in ones (lines 91-99,
\* 155-163, 207-215, 252-260) and an external one with a dependency and the
\* default priority of line 23.
PluginInfo ==
    [CLAHE |-> [category |-> "preprocessing", priority |-> 10, dependencies |-> FALSE],
     SmartSharpening |-> [category |-> "preprocessing", priority |-> 20,
                          dependencies |-> FALSE],
     NoiseReduction |-> [category |-> "postprocessing", priority |-> 30,
                         dependencies |-> FALSE],
     ColorEnhancement |-> [category |-> "postprocessing", priority |-> 40,
                           dependencies |-> FALSE],
     External |-> [category |-> "preprocessing", priority |-> 50, dependencies |-> TRUE]]

PluginNames == DOMAIN PluginInfo

\* Plugin objects, by the name of their class.  1..4 are the instances
\* _register_builtin_plugins creates; 5 is a further instance of a built-in
\* class, as pdf_upscale_converter.py lines 58-63 create; 6 is external.
PluginObjects ==
    <<"CLAHE", "SmartSharpening", "NoiseReduction", "ColorEnhancement", "CLAHE", "External">>

NoPlugin == 0

info(plugin) == PluginInfo[PluginObjects[plugin]]
name_of(plugin) == PluginObjects[plugin]

Categories == {"preprocessing", "postprocessing", "upscaling"}

\* list.append(plugin) followed by the stable list.sort(key=priority) on a list
\* that was sorted before: the plugin goes behind the last one not above it.
RECURSIVE AppendAndSort(_, _)
AppendAndSort(list, plugin) ==
    IF list = <<>> THEN <<plugin>>
    ELSE IF info(list[Len(list)]).priority <= info(plugin).priority
    THEN Append(list, plugin)
    ELSE Append(AppendAndSort(SubSeq(list, 1, Len(list) - 1), plugin), list[Len(list)])

\* list.remove(plugin): the first occurrence goes.
RECURSIVE ListRemove(_, _)
ListRemove(list, plugin) ==
    IF list = <<>> THEN <<>>
    ELSE IF Head(list) = plugin THEN Tail(list)
    ELSE <<Head(list)>> \o ListRemove(Tail(list), plugin)

\* register_plugin, lines 324-353, on a manager m.
WithPlugin(m, plugin, dependencies_found) ==
    IF info(plugin).dependencies /\ ~dependencies_found THEN m
    ELSE LET category == info(plugin).category
         IN [m EXCEPT !.plugins[name_of(plugin)] = plugin,
                      ![category] = AppendAndSort(m[category], plugin)]

RECURSIVE RegisterAll(_, _)
RegisterAll(m, list) ==
    IF list = <<>> THEN m ELSE RegisterAll(WithPlugin(m, Head(list), TRUE), Tail(list))

\* __init__ and _register_builtin_plugins, lines 303-322.
NewPluginManager ==
    RegisterAll([plugins |-> [n \in PluginNames |-> NoPlugin], preprocessing |-> <<>>,
                 postprocessing |-> <<>>, upscaling |-> <<>>], <<1, 2, 3, 4>>)

NoProcess == [called |-> FALSE, category |-> "none", applicable |-> {}, failing |-> {},
              executed |-> <<>>, result |-> <<>>, outcome |-> "none"]

PluginManagerInit ==
    /\ plugin_manager = NewPluginManager
    /\ process_call = NoProcess

register_plugin(plugin, dependencies_found) ==
    /\ Len(plugin_manager.preprocessing) + Len(plugin_manager.postprocessing)
         < MaxRegistered
    /\ plugin_manager' = WithPlugin(plugin_manager, plugin, dependencies_found)
    /\ process_call' = NoProcess
    /\ UNCHANGED notPlugins

\* unregister_plugin, lines 355-378.
unregister_plugin(plugin_name) ==
    /\ IF plugin_manager.plugins[plugin_name] # NoPlugin
       THEN LET plugin == plugin_manager.plugins[plugin_name]
                category == info(plugin).category
            IN plugin_manager' =
                 [plugin_manager EXCEPT ![category] = ListRemove(@, plugin),
                                        !.plugins[plugin_name] = NoPlugin]
       ELSE UNCHANGED plugin_manager
    /\ process_call' = NoProcess
    /\ UNCHANGED notPlugins

\* is_applicable of the plugin classes (lines 101, 165, 217, 262): CLAHE always
\* is; whether another is depends on the features, given here as the set of
\* names that are.
is_applicable(plugin, applicable) == name_of(plugin) = "CLAHE" \/ name_of(plugin) \in applicable

\* get_applicable_plugins, lines 380-400, with a category.
get_applicable_plugins(applicable, category) ==
    SelectSeq(plugin_manager[category], LAMBDA plugin : is_applicable(plugin, applicable))

\* The features of an image, as the sets of plugin names they make applicable.
ApplicableSets == {{}, {"SmartSharpening", "External"}, PluginNames}

\* Which plugin classes have a process() that raises on the image: none or one.
FailingSets == {{}, {"CLAHE"}, {"NoiseReduction"}}

\* process_with_plugins, lines 402-427.  An image is the sequence of plugins
\* applied to it; the process() of the plugins in 'failing' raises.
RECURSIVE Processed(_, _, _)
Processed(result, applicable_plugins, failing) ==
    IF applicable_plugins = <<>> THEN result
    ELSE Processed(IF name_of(Head(applicable_plugins)) \in failing THEN result
                   ELSE Append(result, Head(applicable_plugins)),
                   Tail(applicable_plugins), failing)

process_with_plugins(applicable, category, failing) ==
    /\ LET applicable_plugins == get_applicable_plugins(applicable, category)
       IN process_call' = [called |-> TRUE, category |-> category,
                           applicable |-> applicable, failing |-> failing,
                           executed |-> applicable_plugins,
                           result |-> Processed(<<>>, applicable_plugins, failing),
                           outcome |-> "returned"]
    /\ UNCHANGED plugin_manager
    /\ UNCHANGED notPlugins

NextPlugins ==
    \/ \E plugin \in 1..Len(PluginObjects) : \E dependencies_found \in BOOLEAN :
          register_plugin(plugin, dependencies_found)
    \/ \E plugin_name \in PluginNames : unregister_plugin(plugin_name)
    \/ \E applicable \in ApplicableSets : \E category \in Categories :
         \E failing \in FailingSets : process_with_plugins(applicable, category, failing)

(***************************************************************************)
(* PluginManager: loading and unloading converters                         *)
(***************************************************************************)
\* _find_converter_classes, plugin_manager.py lines 108-119: the classes of
\* a plugin module that derive from ConverterInterface.
LoadableClasses == {c \in Classes : c.iface}

NoUnload == [called |-> FALSE, converter_name |-> "", ok |-> FALSE]

\* PluginManager.__init__, plugin_manager.py lines 31-34.  plugin_metadata
\* always has the keys of loaded_plugins (lines 129-146 and 297-301 change
\* both together) and is not kept separately.
PluginLoaderInit ==
    /\ plugin_instances = [n \in ConverterNames |-> NoInstance]
    /\ unload_call = NoUnload

\* The variables of the parts that neither the factory nor the plugin
\* manager touches.
notFactoryNorLoader == <<breakerVars, windowVars, pageVars, ocrVars, engineVars, cacheVars,
                         healthVars, validatorVars, managerVars, retryVars, pluginsVars,
                         slidesVars>>

\* PluginManager.get_converter, plugin_manager.py lines 198-221: the instance
\* the plugin manager keeps under the name, created on first use.
get_converter(converter_name) ==
    /\ IF ~MapHas(loaded_plugins, converter_name, NoClass)
       THEN /\ got' = [kind |-> "plugin", arg |-> <<converter_name>>, name |-> "",
                       prev |-> NoInstance, result |-> NoInstance]
            /\ UNCHANGED <<plugin_instances, nextId>>
       ELSE IF MapHas(plugin_instances, converter_name, NoInstance)
       THEN /\ got' = [kind |-> "plugin", arg |-> <<converter_name>>,
                       name |-> converter_name,
                       prev |-> plugin_instances[converter_name],
                       result |-> plugin_instances[converter_name]]
            /\ UNCHANGED <<plugin_instances, nextId>>
       ELSE IF ClassById(loaded_plugins[converter_name]).ctor
       THEN /\ nextId <= MaxInstances
            /\ LET inst == [id |-> nextId, cls |-> loaded_plugins[converter_name]]
               IN  /\ plugin_instances' = [plugin_instances EXCEPT ![converter_name] = inst]
                   /\ got' = [kind |-> "plugin", arg |-> <<converter_name>>,
                              name |-> converter_name, prev |-> NoInstance,
                              result |-> inst]
            /\ nextId' = nextId + 1
       ELSE /\ got' = [kind |-> "plugin", arg |-> <<converter_name>>,
                       name |-> converter_name, prev |-> NoInstance,
                       result |-> NoInstance]
            /\ UNCHANGED <<plugin_instances, nextId>>
    /\ UNCHANGED <<_converters, _metadata, _instances, loaded_plugins, unload_call>>
    /\ UNCHANGED notFactoryNorLoader

\* unload_plugin, plugin_manager.py lines 280-308.  cleanup() of the kept
\* instance may raise, which ends the method with False before anything is
\* deleted.  Only the plugin manager's own dicts are touched.
unload_plugin(converter_name) ==
    /\ IF MapHas(plugin_instances, converter_name, NoInstance)
          /\ ~ClassById(plugin_instances[converter_name].cls).cleanup
       THEN /\ unload_call' = [called |-> TRUE, converter_name |-> converter_name,
                               ok |-> FALSE]
            /\ UNCHANGED <<plugin_instances, loaded_plugins>>
       ELSE /\ plugin_instances' = [plugin_instances EXCEPT ![converter_name] = NoInstance]
            /\ loaded_plugins' = [loaded_plugins EXCEPT ![converter_name] = NoClass]
            /\ unload_call' = [called |-> TRUE, converter_name |-> converter_name,
                               ok |-> TRUE]
    /\ got' = NoGet
    /\ UNCHANGED <<_converters, _metadata, _instances, nextId>>
    /\ UNCHANGED notFactoryNorLoader

NextLoader ==
    \/ \E c \in LoadableClasses : _register_converter_class(c)
    \/ \E n \in ConverterNames : unload_plugin(n)
    \/ \E n \in ConverterNames : get_converter(n)
    \/ \E n \in ConverterNames : GetConverterByName(n)
    \/ \E n \in ConverterNames : unregister_converter(n)

(***************************************************************************)
(* WordToPPTConverter: the styled engine                                   *)
(***************************************************************************)
\* __init__, word_to_ppt_converter.py lines 22-23.
max_chars_per_slide == 800
max_lines_per_slide == 15

\* The paragraphs a Word document can hold: style is the lower-cased style
\* name, bold says whether the first run is bold, chars is the length of the
\* stripped text (0 for a paragraph of white space).
ParagraphKinds ==
    {[style |-> "normal", bold |-> FALSE, chars |-> 0],
     [style |-> "heading 1", bold |-> FALSE, chars |-> 10],
     [style |-> "heading 2", bold |-> FALSE, chars |-> 10],
     [style |-> "normal", bold |-> TRUE, chars |-> 10],
     [style |-> "normal", bold |-> FALSE, chars |-> 300],
     [style |-> "normal", bold |-> FALSE, chars |-> 600]}

\* _is_heading, lines 104-107.
_is_heading(paragraph) ==
    paragraph.style \in {"heading 1", "heading 2", "heading 3"} \/ paragraph.bold

\* _get_heading_level, lines 109-119.
_get_heading_level(paragraph) ==
    CASE paragraph.style = "heading 1" -> 1
      [] paragraph.style = "heading 2" -> 2
      [] paragraph.style = "heading 3" -> 3
      [] OTHER -> 1

\* _extract_content_from_word, lines 76-102.  A block keeps the position of
\* its paragraph in the document as its text.
RECURSIVE ExtractFrom(_, _)
ExtractFrom(doc, i) ==
    IF i > Len(doc) THEN <<>>
    ELSE (IF doc[i].chars = 0 THEN <<>>
          ELSE IF _is_heading(doc[i])
          THEN <<[type |-> "heading", text |-> i, chars |-> doc[i].chars,
                  level |-> _get_heading_level(doc[i])]>>
          ELSE <<[type |-> "paragraph", text |-> i, chars |-> doc[i].chars,
                  level |-> 0]>>)
         \o ExtractFrom(doc, i + 1)

_extract_content_from_word(doc) == ExtractFrom(doc, 1)

NoSlide == 0
\* The titles of the slides: the text of a level-1 heading (lines 140-143),
\* the fixed title of a continuation slide (lines 161-163) and that of the
\* title slide of lines 177-183.
HeadingTitle(block) == [kind |-> "heading", text |-> block.text]
ContinuationTitle == [kind |-> "continuation", text |-> 0]
FallbackTitle == [kind |-> "fallback", text |-> 0]

\* convert_word_to_ppt up to line 60, before the document is read.
WordToPPTConverterIdle ==
    /\ paragraphs = <<>>
    /\ ppt_pc = "start"
    /\ content_blocks = <<>>
    /\ slides = <<>>
    /\ current_slide = NoSlide
    /\ current_content = <<>>
    /\ current_chars = 0

WordToPPTConverterInit ==
    /\ paragraphs \in SeqsUpTo(ParagraphKinds, MaxParagraphs)
    /\ ppt_pc = "start"
    /\ content_blocks = <<>>
    /\ slides = <<>>
    /\ current_slide = NoSlide
    /\ current_content = <<>>
    /\ current_chars = 0

\* _add_content_to_slide, lines 189-262: the text frame of the slide is
\* cleared and gets one paragraph per block.
_add_content_to_slide(all, slide, content) ==
    IF content = <<>> THEN all
    ELSE [all EXCEPT ![slide].content = content]

\* The slides after "save the content of the current slide", lines 133-134,
\* 154-155 and 173-174.
SaveCurrent ==
    IF current_slide # NoSlide /\ current_content # <<>>
    THEN _add_content_to_slide(slides, current_slide, current_content)
    ELSE slides

\* convert_word_to_ppt lines 60-63 and _create_ppt_slides lines 123-128: the
\* blocks are extracted; with no block at all the method returns at once.
ExtractContent ==
    /\ ppt_pc = "start"
    /\ content_blocks' = _extract_content_from_word(paragraphs)
    /\ ppt_pc' = IF content_blocks' = <<>> THEN "done" ELSE "loop"
    /\ UNCHANGED <<paragraphs, slides, current_slide, current_content, current_chars>>
    /\ UNCHANGED notSlides

\* _create_ppt_slides, lines 130-170: one turn of the loop, on the first
\* block not yet handled.
LoopBlock ==
    /\ ppt_pc = "loop"
    /\ content_blocks # <<>>
    /\ LET block == Head(content_blocks)
           saved == SaveCurrent
       IN  IF block.type = "heading" /\ block.level = 1
           THEN /\ slides' = Append(saved, [title |-> HeadingTitle(block), content |-> <<>>])
                /\ current_slide' = Len(saved) + 1
                /\ current_content' = <<>>
                /\ current_chars' = 0
           ELSE IF current_chars + block.chars > max_chars_per_slide
                   \/ Len(current_content) >= max_lines_per_slide
           THEN /\ slides' = Append(saved, [title |-> ContinuationTitle, content |-> <<>>])
                /\ current_slide' = Len(saved) + 1
                /\ current_content' = <<block>>
                /\ current_chars' = block.chars
           ELSE /\ current_content' = Append(current_content, block)
                /\ current_chars' = current_chars + block.chars
                /\ UNCHANGED <<slides, current_slide>>
    /\ content_blocks' = Tail(content_blocks)
    /\ UNCHANGED <<paragraphs, ppt_pc>>
    /\ UNCHANGED notSlides

\* _create_ppt_slides, lines 172-183: the last slide gets its content, and a
\* presentation without any slide gets the title slide.
FinishSlides ==
    /\ ppt_pc = "loop"
    /\ content_blocks = <<>>
    /\ LET saved == SaveCurrent
       IN  slides' = IF saved = <<>>
                     THEN <<[title |-> FallbackTitle, content |-> <<>>]>>
                     ELSE saved
    /\ ppt_pc' = "done"
    /\ UNCHANGED <<paragraphs, content_blocks, current_slide, current_content, current_chars>>
    /\ UNCHANGED notSlides

NextSlides ==
    \/ ExtractContent
    \/ LoopBlock
    \/ FinishSlides

(***************************************************************************)
(* Specifications: one per part; the other parts stay as constructed.      *)
(***************************************************************************)
InitBreaker ==
    /\ CircuitBreakerInit
    /\ ConverterFactoryInit
    /\ MainWindowIdle
    /\ PdfOperationsInit
    /\ EnhancedOCRMethodsDefault
    /\ PDFToDocxOCRConverterIdle
    /\ CacheManagerInit
    /\ OCRHealthCheckerInit
    /\ ConfigValidatorIdle
    /\ ConfigManagerIdle
    /\ RetryFileProcessingIdle
    /\ PluginManagerInit
    /\ PluginLoaderInit
    /\ WordToPPTConverterIdle

SpecBreaker == InitBreaker /\ [][NextBreaker]_vars

InitFactory ==
    /\ CircuitBreakerDefault
    /\ ConverterFactoryInit
    /\ MainWindowIdle
    /\ PdfOperationsInit
    /\ EnhancedOCRMethodsDefault
    /\ PDFToDocxOCRConverterIdle
    /\ CacheManagerInit
    /\ OCRHealthCheckerInit
    /\ ConfigValidatorIdle
    /\ ConfigManagerIdle
    /\ RetryFileProcessingIdle
    /\ PluginManagerInit
    /\ PluginLoaderInit
    /\ WordToPPTConverterIdle

SpecFactory == InitFactory /\ [][NextFactory]_vars

InitWindow ==
    /\ CircuitBreakerDefault
    /\ ConverterFactoryInit
    /\ MainWindowInit
    /\ PdfOperationsInit
    /\ EnhancedOCRMethodsDefault
    /\ PDFToDocxOCRConverterIdle
    /\ CacheManagerInit
    /\ OCRHealthCheckerInit
    /\ ConfigValidatorIdle
    /\ ConfigManagerIdle
    /\ RetryFileProcessingIdle
    /\ PluginManagerInit
    /\ PluginLoaderInit
    /\ WordToPPTConverterIdle

SpecWindow == InitWindow /\ [][NextWindow]_vars

InitPages ==
    /\ CircuitBreakerDefault
    /\ ConverterFactoryInit
    /\ MainWindowIdle
    /\ PdfOperationsInit
    /\ EnhancedOCRMethodsDefault
    /\ PDFToDocxOCRConverterIdle
    /\ CacheManagerInit
    /\ OCRHealthCheckerInit
    /\ ConfigValidatorIdle
    /\ ConfigManagerIdle
    /\ RetryFileProcessingIdle
    /\ PluginManagerInit
    /\ PluginLoaderInit
    /\ WordToPPTConverterIdle

SpecPages == InitPages /\ [][NextPages]_vars

InitOcr ==
    /\ CircuitBreakerDefault
    /\ ConverterFactoryInit
    /\ MainWindowIdle
    /\ PdfOperationsInit
    /\ EnhancedOCRMethodsInit
    /\ PDFToDocxOCRConverterIdle
    /\ CacheManagerInit
    /\ OCRHealthCheckerInit
    /\ ConfigValidatorIdle
    /\ ConfigManagerIdle
    /\ RetryFileProcessingIdle
    /\ PluginManagerInit
    /\ PluginLoaderInit
    /\ WordToPPTConverterIdle

SpecOcr == InitOcr /\ [][NextOcr]_vars

InitEngines ==
    /\ CircuitBreakerDefault
    /\ ConverterFactoryInit
    /\ MainWindowIdle
    /\ PdfOperationsInit
    /\ EnhancedOCRMethodsDefault
    /\ PDFToDocxOCRConverterInit
    /\ CacheManagerInit
    /\ OCRHealthCheckerInit
    /\ ConfigValidatorIdle
    /\ ConfigManagerIdle
    /\ RetryFileProcessingIdle
    /\ PluginManagerInit
    /\ PluginLoaderInit
    /\ WordToPPTConverterIdle

SpecEngines == InitEngines /\ [][NextEngines]_vars

InitCache ==
    /\ CircuitBreakerDefault
    /\ ConverterFactoryInit
    /\ MainWindowIdle
    /\ PdfOperationsInit
    /\ EnhancedOCRMethodsDefault
    /\ PDFToDocxOCRConverterIdle
    /\ CacheManagerInit
    /\ OCRHealthCheckerInit
    /\ ConfigValidatorIdle
    /\ ConfigManagerIdle
    /\ RetryFileProcessingIdle
    /\ PluginManagerInit
    /\ PluginLoaderInit
    /\ WordToPPTConverterIdle

SpecCache == InitCache /\ [][NextCache]_vars

InitHealth ==
    /\ CircuitBreakerDefault
    /\ ConverterFactoryInit
    /\ MainWindowIdle
    /\ PdfOperationsInit
    /\ EnhancedOCRMethodsDefault
    /\ PDFToDocxOCRConverterIdle
    /\ CacheManagerInit
    /\ OCRHealthCheckerInit
    /\ ConfigValidatorIdle
    /\ ConfigManagerIdle
    /\ RetryFileProcessingIdle
    /\ PluginManagerInit
    /\ PluginLoaderInit
    /\ WordToPPTConverterIdle

SpecHealth == InitHealth /\ [][NextHealth]_vars

InitValidator ==
    /\ CircuitBreakerDefault
    /\ ConverterFactoryInit
    /\ MainWindowIdle
    /\ PdfOperationsInit
    /\ EnhancedOCRMethodsDefault
    /\ PDFToDocxOCRConverterIdle
    /\ CacheManagerInit
    /\ OCRHealthCheckerInit
    /\ ConfigValidatorInit
    /\ ConfigManagerIdle
    /\ RetryFileProcessingIdle
    /\ PluginManagerInit
    /\ PluginLoaderInit
    /\ WordToPPTConverterIdle

SpecValidator == InitValidator /\ [][NextValidator]_vars

InitManager ==
    /\ CircuitBreakerDefault
    /\ ConverterFactoryInit
    /\ MainWindowIdle
    /\ PdfOperationsInit
    /\ EnhancedOCRMethodsDefault
    /\ PDFToDocxOCRConverterIdle
    /\ CacheManagerInit
    /\ OCRHealthCheckerInit
    /\ ConfigValidatorIdle
    /\ ConfigManagerInit
    /\ RetryFileProcessingIdle
    /\ PluginManagerInit
    /\ PluginLoaderInit
    /\ WordToPPTConverterIdle

SpecManager == InitManager /\ [][NextManager]_vars

InitRetry ==
    /\ CircuitBreakerDefault
    /\ ConverterFactoryInit
    /\ MainWindowIdle
    /\ PdfOperationsInit
    /\ EnhancedOCRMethodsDefault
    /\ PDFToDocxOCRConverterIdle
    /\ CacheManagerInit
    /\ OCRHealthCheckerInit
    /\ ConfigValidatorIdle
    /\ ConfigManagerIdle
    /\ RetryFileProcessingInit
    /\ PluginManagerInit
    /\ PluginLoaderInit
    /\ WordToPPTConverterIdle

SpecRetry == InitRetry /\ [][NextRetry]_vars

InitPlugins ==
    /\ CircuitBreakerDefault
    /\ ConverterFactoryInit
    /\ MainWindowIdle
    /\ PdfOperationsInit
    /\ EnhancedOCRMethodsDefault
    /\ PDFToDocxOCRConverterIdle
    /\ CacheManagerInit
    /\ OCRHealthCheckerInit
    /\ ConfigValidatorIdle
    /\ ConfigManagerIdle
    /\ RetryFileProcessingIdle
    /\ PluginManagerInit
    /\ PluginLoaderInit
    /\ WordToPPTConverterIdle

SpecPlugins == InitPlugins /\ [][NextPlugins]_vars

InitLoader ==
    /\ CircuitBreakerDefault
    /\ ConverterFactoryInit
    /\ MainWindowIdle
    /\ PdfOperationsInit
    /\ EnhancedOCRMethodsDefault
    /\ PDFToDocxOCRConverterIdle
    /\ CacheManagerInit
    /\ OCRHealthCheckerInit
    /\ ConfigValidatorIdle
    /\ ConfigManagerIdle
    /\ RetryFileProcessingIdle
    /\ PluginManagerInit
    /\ PluginLoaderInit
    /\ WordToPPTConverterIdle

SpecLoader == InitLoader /\ [][NextLoader]_vars

InitSlides ==
    /\ CircuitBreakerDefault
    /\ ConverterFactoryInit
    /\ MainWindowIdle
    /\ PdfOperationsInit
    /\ EnhancedOCRMethodsDefault
    /\ PDFToDocxOCRConverterIdle
    /\ CacheManagerInit
    /\ OCRHealthCheckerInit
    /\ ConfigValidatorIdle
    /\ ConfigManagerIdle
    /\ RetryFileProcessingIdle
    /\ PluginManagerInit
    /\ PluginLoaderInit
    /\ WordToPPTConverterInit

SpecSlides == InitSlides /\ [][NextSlides]_vars

(***************************************************************************)
(* Claims about the CircuitBreaker (checked under SpecBreaker)             *)
(***************************************************************************)
\* The most recent call found the breaker OPEN with less than recovery_timeout
\* elapsed since the last failure.
CallWhileOpenEarly ==
    /\ cb_call.pre = "OPEN"
    /\ cb_call.at - cb_call.lft < recovery_timeout

\* The most recent call found the breaker OPEN with recovery_timeout elapsed.
CallWhileOpenDue ==
    /\ cb_call.pre = "OPEN"
    /\ cb_call.at - cb_call.lft >= recovery_timeout

FailFast ==
    CallWhileOpenEarly => (cb_call.res = "rejected" /\ ~cb_call.invoked)

\* C1 (as amended): right after the T-th consecutive call that failed with an
\* exception of one of the breaker's expected kinds the breaker is OPEN, and a
\* call made while it is OPEN, before recovery_timeout has elapsed since the
\* last failure, raises the breaker-open signal without invoking the function.
C1_OpenAfterThresholdExpectedFailures ==
    /\ (cb_call.res = "expected" /\ streak >= failure_threshold) => state = "OPEN"
    /\ FailFast

\* C1 witness: the breaker was opened by the threshold-th expected failure, and
\* a later call on it was rejected before the timeout.
C1_Witness ==
    /\ state = "OPEN"
    /\ streak >= failure_threshold
    /\ failure_threshold >= 2
    /\ CallWhileOpenEarly
    /\ cb_call.res = "rejected"

\* C1 as stated: after T consecutive failed calls (the wrapped function raised,
\* whatever the kind of exception) the breaker is OPEN, and calls on an OPEN
\* breaker before the timeout fail fast.
C1_OpenAfterThresholdFailures ==
    /\ (cb_call.res \in {"expected", "other"} /\ anyStreak >= failure_threshold)
          => state = "OPEN"
    /\ FailFast

\* The most recent call is one that decides a HALF_OPEN breaker: it found the
\* breaker HALF_OPEN, or found it OPEN after the timeout and made it HALF_OPEN.
ProbeCall == cb_call.pre = "HALF_OPEN" \/ CallWhileOpenDue

\* C2 (as amended): the first call on an OPEN breaker after recovery_timeout
\* moves it to HALF_OPEN and invokes the wrapped function; from HALF_OPEN a
\* success gives CLOSED with failure_count 0, a failure with an exception of an
\* expected kind gives OPEN, and any other exception leaves it HALF_OPEN.
C2_HalfOpenResolution ==
    /\ (CallWhileOpenDue /\ cb_call.res = "running")
          => (state = "HALF_OPEN" /\ cb_call.invoked)
    /\ (CallWhileOpenDue => cb_call.invoked)
    /\ (ProbeCall /\ cb_call.res = "ok") => (state = "CLOSED" /\ failure_count = 0)
    /\ (ProbeCall /\ cb_call.res = "expected") => state = "OPEN"
    /\ (ProbeCall /\ cb_call.res = "other") => state = "HALF_OPEN"

\* C2 witness: a probe call succeeded and closed a breaker that had been opened.
C2_Witness ==
    /\ CallWhileOpenDue
    /\ cb_call.res = "ok"
    /\ state = "CLOSED"
    /\ failure_count = 0

\* C2 as stated: from HALF_OPEN the next call resolves the state, CLOSED with
\* the counter at 0 when the function succeeds and OPEN when it fails.
C2_HalfOpenResolvedByNextCall ==
    /\ (CallWhileOpenDue /\ cb_call.res = "running")
          => (state = "HALF_OPEN" /\ cb_call.invoked)
    /\ (ProbeCall /\ cb_call.res = "ok") => (state = "CLOSED" /\ failure_count = 0)
    /\ (ProbeCall /\ cb_call.res \in {"expected", "other"}) => state = "OPEN"

(***************************************************************************)
(* Claims about the ConverterFactory (checked under SpecFactory)           *)
(***************************************************************************)
\* Strings that differ only in case.
CaseClasses == {{"pdf", "PDF"}, {"docx", "Docx", "DOCX"}, {"pptx"}}
SameIgnoringCase(x, y) == \E K \in CaseClasses : x \in K /\ y \in K

Registered == {DictKeys(_metadata)[i] : i \in 1..Len(_metadata)}
\* The place of a registered name in the registry's insertion order.
Place(n) == CHOOSE i \in 1..Len(_metadata) : _metadata[i].key = n
PriorityOf(n) == DictGet(_metadata, n).priority

Declares(n, input_format, output_format) ==
    /\ \E f \in DictGet(_metadata, n).inputs : SameIgnoringCase(f, input_format)
    /\ \E f \in DictGet(_metadata, n).outputs : SameIgnoringCase(f, output_format)

ResolutionOrdered(l) ==
    \A j, k \in 1..Len(l) :
        j < k => \/ PriorityOf(l[j]) > PriorityOf(l[k])
                 \/ PriorityOf(l[j]) = PriorityOf(l[k]) /\ Place(l[j]) < Place(l[k])

\* C3: for every registry state and every format pair, get_converters_for_format
\* returns exactly the registered converters whose declared formats match
\* case-insensitively, by descending priority, equal priorities in insertion
\* order (the order of the registry's keys); get_converter(input, output)
\* returns the instance of the first of them, and nothing when there is none.
C3_FormatResolution ==
    /\ \A i \in InputFormats : \A o \in OutputFormats :
          LET l == get_converters_for_format(i, o)
          IN  /\ {l[k] : k \in 1..Len(l)} = {n \in Registered : Declares(n, i, o)}
              /\ \A j, k \in 1..Len(l) : j # k => l[j] # l[k]
              /\ ResolutionOrdered(l)
    /\ got.kind = "format" =>
          LET l == get_converters_for_format(got.arg[1], got.arg[2])
          IN  IF l = <<>>
              THEN got.result = NoInstance
              ELSE /\ got.name = l[1]
                   /\ got.result # NoInstance
                   /\ got.result = _instances[l[1]]

\* C3 witness: a two-argument get_converter resolved among three matching
\* converters, two of them with equal priority and a third with a higher one,
\* for a request whose case differs from the declared formats.
C3_Witness ==
    /\ got.kind = "format"
    /\ got.result # NoInstance
    /\ LET l == get_converters_for_format(got.arg[1], got.arg[2])
       IN  /\ Len(l) = 3
           /\ PriorityOf(l[1]) > PriorityOf(l[2])
           /\ PriorityOf(l[2]) = PriorityOf(l[3])
           /\ got.arg[1] \notin DictGet(_metadata, l[1]).inputs

\* C4: the last registration for a name wins: a lookup after register_converter
\* sees the latest metadata, and get_converter returns an instance of the
\* class registered last under the name.
C4_LastRegistrationWins ==
    got.result # NoInstance => got.result.cls = DictGet(_converters, got.name)

\* C5: no instance is held for a name that is not registered, live instances of
\* different names are different objects, get_converter returns the instance
\* the factory holds, creating it only when there was none, and an instance
\* held under a name stays the same object until unregister_converter removes
\* the name or cleanup_all drops every instance.
C5_Held ==
    /\ \A n \in ConverterNames : _instances[n] # NoInstance => n \in Registered
    /\ \A n, m \in ConverterNames :
          (n # m /\ _instances[n] # NoInstance /\ _instances[m] # NoInstance)
             => _instances[n].id # _instances[m].id
    /\ got.name # "" =>
          /\ got.result = _instances[got.name]
          /\ got.result # NoInstance
          /\ got.prev # NoInstance => got.result = got.prev
          /\ got.prev = NoInstance => got.result.id = nextId - 1

C5_Kept ==
    \A n \in ConverterNames :
        (_instances[n] # NoInstance /\ _instances'[n] # _instances[n])
           => /\ _instances'[n] = NoInstance
              /\ \/ ~DictHas(_converters', n)
                 \/ \A m \in ConverterNames : _instances'[m] = NoInstance

C5_LazySingleton == [] C5_Held /\ [][C5_Kept]_vars

\* C5 witness: a second get_converter returned the instance created by an
\* earlier one, while another name holds its own instance.
C5_Witness ==
    /\ got.prev # NoInstance
    /\ got.result = got.prev
    /\ \E m \in ConverterNames : m # got.name /\ _instances[m] # NoInstance

(***************************************************************************)
(* Claims about batch conversion (checked under SpecWindow)                *)
(***************************************************************************)
Count(seq, v) == Cardinality({k \in 1..Len(seq) : seq[k] = v})
IsHundred(p) == p.num = 100 * p.den

\* C6 (state part): a worker has counted every file it went through exactly
\* once, as a success or as a failure, and a finished batch of M files went
\* through all M and reports S successes and F failures with S + F = M.
C6_Counted ==
    \A t \in Threads :
        LET r == threads[t]
        IN  /\ r.pc \in {"converting", "done"} =>
                  /\ Len(r.outcomes) = r.i
                  /\ r.successful = Count(r.outcomes, "ok")
                  /\ r.failed = r.i - Count(r.outcomes, "ok")
            /\ r.pc = "done" =>
                  /\ r.i = Len(r.pdf_files)
                  /\ r.summary = <<r.successful, r.failed>>
                  /\ r.summary[1] + r.summary[2] = Len(r.pdf_files)

\* C6 (step part): a failed file is followed by the next one, and the step
\* that handles the M-th file sets the progress value to 100.
C6_Step ==
    \A t \in Threads :
        (threads[t].pc = "converting" /\ threads'[t].i # threads[t].i)
           => /\ threads'[t].i = threads[t].i + 1
              /\ threads'[t].pc = "converting"
              /\ threads'[t].i = Len(threads[t].pdf_files) => IsHundred(progress_var')

\* C6: in a batch of M files every file is counted exactly once as a success
\* or a failure, a failure does not stop the remaining files, the summary
\* reports S and F with S + F = M, and progress is 100 after the M-th file.
C6_BatchAccounting == [] C6_Counted /\ [][C6_Step]_vars

\* C6 witness: a finished batch of two files whose first file failed and whose
\* second succeeded, with progress at 100.
C6_Witness ==
    \E t \in Threads :
        /\ threads[t].pc = "done"
        /\ threads[t].outcomes = <<"failed", "ok">>
        /\ threads[t].summary = <<1, 1>>
        /\ IsHundred(progress_var)

\* C7: if an output the batch will write exists when the batch starts, the
\* user is asked once before any file is converted, in every output mode, and
\* a batch the user declined has written nothing.
C7_AskedBeforeOverwrite ==
    \A t \in Threads :
        /\ threads[t].asked <= 1
        /\ threads[t].pc \in {"converting", "done"} =>
              (threads[t].clash => threads[t].asked = 1)
        /\ threads[t].pc = "cancelled" => threads[t].written = {}

\* C8: at no time do two conversion worker threads run.
C8_OneWorker == Cardinality({t \in Threads : Running(t)}) <= 1


(***************************************************************************)
(* C9: delete_selected_pages                                               *)
(***************************************************************************)
\* The pages of a document at the positions not in a set, in document order.
RECURSIVE Unselected(_, _)
Unselected(document, selected) ==
    IF document = <<>> THEN <<>>
    ELSE Unselected(SubSeq(document, 1, Len(document) - 1), selected)
            \o (IF Len(document) - 1 \in selected THEN <<>>
                ELSE <<document[Len(document)]>>)

\* C9: for a loaded PDF with N pages and a selected-page set of size k with
\* 0 < k < N, delete_selected_pages writes a document with exactly N-k pages,
\* in original relative order, corresponding exactly to the unselected page
\* indices; when all N pages are selected the operation is rejected before
\* any file is written.
C9_DeleteSelectedPages ==
    LET N == deletion.total_pages
        k == Cardinality(deletion.selected)
    IN  /\ (deletion.outcome = "saved" /\ 0 < k /\ k < N) =>
              /\ Len(deletion.written) = N - k
              /\ deletion.written = Unselected(deletion.before, deletion.selected)
              /\ disk[pdf_path] = deletion.written
        /\ (deletion.outcome # "none" /\ N > 0 /\ deletion.selected = 0..(N - 1)) =>
              /\ deletion.outcome = "rejected"
              /\ deletion.written = <<>>

\* The same statement restricted to selections made only of page indices of
\* the open document: this is what the code does guarantee.
C9_DeleteValidSelection ==
    (deletion.selected \subseteq 0..(deletion.total_pages - 1)) => C9_DeleteSelectedPages

C9_ValidDeletionSaved ==
    /\ deletion.outcome = "saved"
    /\ deletion.selected \subseteq 0..(deletion.total_pages - 1)
    /\ deletion.before = <<"a1", "a2">>
    /\ deletion.written = <<"a2">>

C9_AllSelectedRejected ==
    /\ deletion.outcome = "rejected"
    /\ deletion.selected = 0..(deletion.total_pages - 1)

(***************************************************************************)
(* C10: batch_process_images                                               *)
(***************************************************************************)
\* C10: batch_process_images returns to its caller exactly one result per
\* input image, at the position of that image in the input list, and every
\* image whose task timed out or raised gets a synthesized failure result
\* (success flag false, empty text, a fixed error message) rather than a
\* missing slot or an exception escaping the batch call.
C10_OneResultPerImage ==
    ocr_pc = "returned" =>
        /\ returned.kind = "results"
        /\ Len(returned.value) = Len(images)
        /\ \A position \in 1..Len(images) :
              LET result == returned.value[position]
              IN  /\ result # None
                  /\ images[position] = "ok" =>
                        result.success /\ result.image = position
                  /\ images[position] # "ok" =>
                        ~result.success /\ result.text = ""

\* What the code does guarantee: when the call returns a list, the list has
\* one result per image, each at the position of its image.
C10_ReturnedListIsPositional ==
    (ocr_pc = "returned" /\ returned.kind = "results") =>
        /\ Len(returned.value) = Len(images)
        /\ \A position \in 1..Len(images) :
              /\ returned.value[position] # None
              /\ returned.value[position].image = position
              /\ returned.value[position].success = (images[position] = "ok")

C10_TwoBatchesReturned ==
    /\ ocr_pc = "returned"
    /\ returned.kind = "results"
    /\ batch_size = 2
    /\ images = <<"ok", "raises", "ok">>

C10_TimeoutEscapes ==
    /\ ocr_pc = "returned"
    /\ returned.kind = "TimeoutError"

(***************************************************************************)
(* C11: a batch gives control back by its aggregate timeout                *)
(***************************************************************************)
\* per-image timeout x batch size, line 129.
AggregateTimeout == timeout_per_image * Len(futures)

\* C11: an OCR task that never finishes cannot block batch processing: each
\* batch returns control to the caller at the latest when the batch's
\* aggregate timeout has elapsed, with the straggling task recorded as a
\* failed result for its slot.
C11_BatchReturnsByTimeout ==
    /\ ocr_pc \in {"collecting", "shutdown"} => elapsed <= AggregateTimeout
    /\ (ocr_pc = "returned" /\ \E position \in 1..Len(images) : images[position] = "hangs")
          => /\ returned.kind = "results"
             /\ \A position \in 1..Len(images) :
                   images[position] = "hangs" => ~returned.value[position].success

\* The call is stuck for good: the timeout has fired, the pool is being
\* closed, and a task that never finishes is running in it.
C11_BlockedByStraggler ==
    /\ ocr_pc = "shutdown"
    /\ elapsed > AggregateTimeout
    /\ \E idx \in 1..Len(futures) :
          futures[idx] = "running" /\ images[batch_start + idx] = "hangs"

(***************************************************************************)
(* C12, C13: engine selection and cleanup (checked under SpecEngines)      *)
(***************************************************************************)
\* The text of a failure mentions GPU, CUDA or memory, in any letter case.
MentionsGpuCudaMemory(msg) ==
    msg \in {"CUDA error", "out of memory", "GPU not available", "cuda runtime error"}

\* C12: the instance starts in paddle mode; after any recognition failure of
\* the paddle engine (an error or an abandoned timed-out call) it is in easy
\* mode for every later OCR call and never returns to paddle on its own; if
\* the failure signature mentions GPU/CUDA/memory the forced-CPU flag is set
\* and stays set.
C12_EngineDowngrade ==
    /\ ocr_call.op = "none" => engines._ocr_engine = "paddle"
    /\ lifetime.paddle_failed => engines._ocr_engine = "easy"
    /\ \A msg \in lifetime.messages :
          MentionsGpuCudaMemory(msg) => engines._force_cpu_mode

\* What the code does guarantee: a paddle call that raised leaves the
\* instance in easy mode until cleanup(), and the forced-CPU flag is set when
\* the text contains "CUDA" in capitals or "memory" in any case.
C12_ErrorDowngrades ==
    /\ ocr_call.op = "none" => engines._ocr_engine = "paddle"
    /\ lifetime.messages # {} => engines._ocr_engine = "easy"
    /\ \A msg \in lifetime.messages :
          (HasCUDA(msg) \/ HasMemory(msg)) => engines._force_cpu_mode

C12_GpuFailureWithoutFlag ==
    /\ "GPU not available" \in lifetime.messages
    /\ ~engines._force_cpu_mode
    /\ engines._ocr_engine = "easy"

\* C13: cleanup() is a hard reset from any reachable state: afterwards both
\* lazily constructed engines are discarded, the engine mode is paddle, the
\* forced-CPU flag is cleared and the tracked temp-file list is empty.
C13_CleanupResets ==
    ocr_call.op = "cleanup" =>
        /\ engines._paddle_ocr = NoEngine
        /\ engines._easy_ocr_reader = NoEngine
        /\ engines._ocr_engine = "paddle"
        /\ ~engines._force_cpu_mode
        /\ engines._temp_files = 0

\* C13 witness: cleanup() ran on an instance that had been downgraded, had
\* the forced-CPU flag set, held an EasyOCR reader and tracked temp files.
C13_Witness ==
    /\ ocr_call.op = "cleanup"
    /\ ocr_call.before._ocr_engine = "easy"
    /\ ocr_call.before._force_cpu_mode
    /\ ocr_call.before._easy_ocr_reader # NoEngine
    /\ ocr_call.before._temp_files > 0
    /\ engines = FreshEngines

(***************************************************************************)
(* C14: cache hit and miss counting (checked under SpecCache)              *)
(***************************************************************************)
\* hit_count / (hit_count + miss_count) when the denominator is non-zero,
\* else 0.
ExpectedHitRate ==
    IF cache.stats.hit_count + cache.stats.miss_count # 0
    THEN Rate(cache.stats.hit_count, cache.stats.hit_count + cache.stats.miss_count)
    ELSE Rate(0, 1)

\* C14: in every cache state, a set(k, v) followed immediately by get(k)
\* increments hit_count by exactly 1 and leaves miss_count unchanged; a get
\* on a never-set key increments miss_count by exactly 1 and leaves hit_count
\* unchanged; after every get hit_rate equals hit_count / (hit_count +
\* miss_count) when the denominator is non-zero, else 0.
C14_HitMissCounting ==
    cache_call.op = "get" =>
        /\ cache_call.after_set => (cache_call.hits = 1 /\ cache_call.misses = 0)
        /\ ~cache_call.known => (cache_call.hits = 0 /\ cache_call.misses = 1)
        /\ cache.stats.hit_rate = ExpectedHitRate

\* What the code does guarantee: every get raises exactly one of the two
\* counters by one and leaves hit_rate at hit_count / (hit_count + miss_count).
C14_OneCounterPerGet ==
    cache_call.op = "get" =>
        /\ cache_call.hits + cache_call.misses = 1
        /\ cache.stats.hit_rate = ExpectedHitRate

C14_SetThenMiss ==
    /\ cache_call.op = "get"
    /\ cache_call.key \in CacheKeys
    /\ cache_call.after_set
    /\ cache_call.misses = 1
(***************************************************************************)
(* C15: health status (checked under SpecHealth)                           *)
(***************************************************************************)
\* The response times of the operations recorded since the last reset, summed.
SumOfTimes(ops) ==
    slow_operations * SlowResponse + (Len(ops) - slow_operations) * FastResponse

\* The status the operations recorded since the last reset call for.
StatusOf(ops) ==
    LET recent == LastN(ops, 10)
    IN IF Len(ops) = 0 THEN "healthy"
       ELSE IF Successes(recent) * 10 < 3 * Len(recent) \/ SumOfTimes(ops) > 30 * Len(ops)
            THEN "critical"
       ELSE IF \/ Successes(ops) * 10 < 7 * Len(ops)
               \/ Successes(recent) * 10 < 6 * Len(recent)
               \/ SumOfTimes(ops) > 10 * Len(ops)
            THEN "warning"
       ELSE "healthy"

\* C15: whatever was recorded, also after the ring buffer has wrapped,
\* check_ocr_health reports healthy when no operation has been recorded;
\* otherwise critical when the success rate of the 10 most recent samples is
\* below 0.3 or the average response time is above 30 s, whatever the older
\* history; otherwise warning when the overall success rate is below 0.7, the
\* recent one below 0.6 or the average response time above 10 s; otherwise
\* healthy.
C15_HealthStatus ==
    health_report # NoReport => health_report.status = StatusOf(recorded)

\* C15 witness: a report made after the ring buffer has wrapped, where the
\* retained history as a whole has a success rate below 0.3 but the 10 most
\* recent samples do not, so the status is warning and not critical.
C15_Witness ==
    /\ health_report # NoReport
    /\ total_operations > max_history
    /\ RateBelow(Successes(operation_history), Len(operation_history), 3)
    /\ health_report.status = "warning"

(***************************************************************************)
(* C16, C17: ConfigValidator (checked under SpecValidator)                 *)
(***************************************************************************)
\* C16: running fix_config_issues on a mapping it has fixed gives the same
\* mapping, and validating a fixed mapping reports no issue.
C16_FixIdempotentAndValid ==
    /\ (fix_call.called /\ fix_call.input_fixed) => fix_call.output = fix_call.input
    /\ (validate_call.called /\ validate_call.of_fixed) =>
          validate_call.result.valid /\ validate_call.result.issues = <<>>

\* C16 witness: a mapping that the first run had to repair has been fixed a
\* second time, saved and validated.
C16_Witness ==
    /\ fix_call.called /\ fix_call.input_fixed /\ fix_call.repaired
    /\ validate_call.called /\ validate_call.of_fixed

\* The entries of a validation result that are about gpu_memory_limit.
AboutGpu(entries) == SelectSeq(entries, LAMBDA e : e.field = "gpu_memory_limit")

\* The gpu_memory_limit a validation looked at.
ValidatedGpu ==
    LET config == validate_call.result.config
    IN IF config["gpu_memory_limit"] = Absent THEN IntValue(4096)
       ELSE config["gpu_memory_limit"]

ValidatedMapping ==
    /\ validate_call.called
    /\ \A i \in 1..Len(validate_call.result.issues) :
          validate_call.result.issues[i].field # "general"

Suggests(entries, n) == Len(entries) = 1 /\ entries[1].suggested_value = IntValue(n)

\* C17 (as amended): the GPU memory limit has its own thresholds: a value that
\* is not an integer is an issue and the result is not valid; an integer below
\* 512 is no issue but a warning suggesting 2048; an integer above 16384 is no
\* issue but a warning suggesting 8192; an integer from 512 to 16384 gives
\* neither.
C17_GpuThresholds ==
    ValidatedMapping =>
       LET issues == AboutGpu(validate_call.result.issues)
           warnings == AboutGpu(validate_call.result.warnings)
           gpu == ValidatedGpu
       IN IF gpu.t \notin {"int", "bool"}
          THEN Suggests(issues, 4096) /\ warnings = <<>> /\ ~validate_call.result.valid
          ELSE /\ issues = <<>>
               /\ gpu.v < 512 => Suggests(warnings, 2048)
               /\ gpu.v > 16384 => Suggests(warnings, 8192)
               /\ (gpu.v >= 512 /\ gpu.v <= 16384) => warnings = <<>>

\* C17 witness: a mapping whose limit is an integer below 512 was validated and
\* found valid, with a warning.
C17_Witness ==
    /\ ValidatedMapping
    /\ ValidatedGpu = IntValue(100)
    /\ validate_call.result.valid
    /\ Suggests(AboutGpu(validate_call.result.warnings), 2048)

\* C17 as stated: an integer below 512 is an issue and the result is not valid;
\* one from 512 to 2047 is a warning suggesting 2048; one above 16384 is a
\* warning suggesting 8192.
C17_AsStated ==
    (ValidatedMapping /\ ValidatedGpu.t = "int") =>
       LET issues == AboutGpu(validate_call.result.issues)
           warnings == AboutGpu(validate_call.result.warnings)
           gpu == ValidatedGpu
       IN /\ gpu.v < 512 => (issues # <<>> /\ ~validate_call.result.valid)
          /\ (gpu.v >= 512 /\ gpu.v < 2048) => Suggests(warnings, 2048)
          /\ gpu.v > 16384 => Suggests(warnings, 8192)

(***************************************************************************)
(* C18: ConfigManager.load_config (checked under SpecManager)              *)
(***************************************************************************)
SavedDefault == [kind |-> "saved", config |-> ProcessingConfig]

\* C18 (as amended): load_config always returns a configuration and reads the
\* file at most once per manager.  With no config file it returns and caches
\* the defaults and saves them to the file (unless the write fails); when the
\* file cannot be parsed it returns and caches the defaults and leaves the
\* file as it is.
C18_LoadConfig ==
    /\ file_reads <= 1
    /\ load_call.called =>
         /\ load_call.result # NoConfig
         /\ (~load_call.cached /\ load_call.before = "missing") =>
               /\ load_call.result = ProcessingConfig
               /\ load_call.writable => load_call.after = SavedDefault
         /\ (~load_call.cached /\ load_call.before \in {"unparsable", "rejected"}) =>
               /\ load_call.result = ProcessingConfig
               /\ load_call.after.kind = load_call.before

\* C18 witness: a load found a file it could not parse, gave the defaults and
\* left the file behind; the disk was writable.
C18_Witness ==
    /\ load_call.called /\ ~load_call.cached /\ load_call.writable
    /\ load_call.before = "unparsable"
    /\ load_call.result = ProcessingConfig
    /\ load_call.after.kind = "unparsable"
    /\ file_reads = 1

\* C18 as stated: with no config file and on any parse failure load_config
\* saves the defaults to the config file (the disk being writable).
C18_AsStated ==
    (/\ load_call.called /\ ~load_call.cached /\ load_call.writable
     /\ load_call.before \in {"missing", "unparsable", "rejected"})
       => load_call.result = ProcessingConfig /\ load_call.after = SavedDefault

(***************************************************************************)
(* C19: retry_file_processing (checked under SpecRetry)                    *)
(***************************************************************************)
Failed(i) == invocations[i] # Returns

\* C19: a function wrapped with max_retries = n is invoked at most n + 1 times
\* per call; it is invoked again only after an I/O, OS or runtime failure; any
\* other failure is raised to the caller right after the invocation that
\* raised it; and when all n + 1 invocations fail, the last failure is raised.
C19_RetryFileProcessing ==
    LET count == Len(invocations)
    IN /\ count <= max_retries + 1
       /\ \A i \in 1..(count - 1) :
             invocations[i] \in {"OSError", "FileNotFoundError", "RuntimeError"}
       /\ (count > 0 /\ Failed(count)
             /\ invocations[count] \notin {"OSError", "FileNotFoundError", "RuntimeError"})
            => retry_pc = "raised" /\ retry_result = invocations[count]
       /\ (count = max_retries + 1 /\ count > 0 /\ \A i \in 1..count : Failed(i))
            => retry_pc = "raised" /\ retry_result = invocations[count]

\* C19 witness: with max_retries = 2 all three invocations failed, with
\* different failures, and the caller got the last one.
C19_Witness ==
    /\ max_retries = 2
    /\ Len(invocations) = 3
    /\ invocations[1] = "RuntimeError" /\ invocations[3] = "FileNotFoundError"
    /\ retry_pc = "raised"
    /\ retry_result = "FileNotFoundError"

(***************************************************************************)
(* C20: process_with_plugins (checked under SpecPlugins)                   *)
(***************************************************************************)
IsRegistered(plugin) == plugin_manager.plugins[name_of(plugin)] = plugin

\* C20: whatever was registered and unregistered before, process_with_plugins
\* executes each applicable registered plugin of the requested category exactly
\* once, in ascending order of priority; a plugin whose execution fails is
\* skipped, the others still run, and the call returns an image.
C20_ProcessWithPlugins ==
    process_call.called =>
       LET executed == process_call.executed
       IN /\ process_call.outcome = "returned"
          /\ \A i \in 1..Len(executed) : IsRegistered(executed[i])
          /\ \A i, j \in 1..Len(executed) : i # j => executed[i] # executed[j]
          /\ \A plugin \in 1..Len(PluginObjects) :
                (/\ IsRegistered(plugin)
                 /\ info(plugin).category = process_call.category
                 /\ is_applicable(plugin, process_call.applicable))
                  => \E i \in 1..Len(executed) : executed[i] = plugin
          /\ \A i, j \in 1..Len(executed) :
                i < j => info(executed[i]).priority <= info(executed[j]).priority
          /\ process_call.result =
                SelectSeq(executed, LAMBDA plugin : name_of(plugin) \notin process_call.failing)

\* The part of C20 that holds: the plugins run in ascending order of priority,
\* a failing one is left out of the image and the call returns.
C20_OrderAndSkipping ==
    process_call.called =>
       LET executed == process_call.executed
       IN /\ process_call.outcome = "returned"
          /\ \A i, j \in 1..Len(executed) :
                i < j => info(executed[i]).priority <= info(executed[j]).priority
          /\ process_call.result =
                SelectSeq(executed, LAMBDA plugin : name_of(plugin) \notin process_call.failing)

\* A plugin class was registered again with a new instance, as
\* pdf_upscale_converter.py does, and the preprocessing run executed both the
\* replaced instance and the new one.
C20_ReplacedPluginRuns ==
    /\ process_call.called
    /\ process_call.category = "preprocessing"
    /\ \E i, j \in 1..Len(process_call.executed) :
          /\ process_call.executed[i] = 1
          /\ process_call.executed[j] = 5
    /\ plugin_manager.plugins["CLAHE"] = 5

(***************************************************************************)
(* C21, C29, C30: cache eviction and statistics (checked under SpecCache)  *)
(***************************************************************************)
\* The files a cleanup that starts from cache c deletes, in order.
RECURSIVE Evictions(_, _)
Evictions(c, cache_files) ==
    IF cache_files = <<>> \/ c.stats.total_size_mb * 10 <= max_cache_size_mb * 6
    THEN <<>>
    ELSE <<Head(cache_files)>> \o Evictions(delete(c, Head(cache_files)), Tail(cache_files))

\* What the cleanup of the latest call deleted.
Evicted == Evictions(cache_call.cleaned.c, CleanupOrder(cache_call.cleaned.c))

\* Where key stands in the order of access of cache c; 0 when it has no time stamp.
AccessRank(c, key) ==
    IF \E j \in 1..Len(c._access_times) : c._access_times[j] = key
    THEN CHOOSE j \in 1..Len(c._access_times) : c._access_times[j] = key
    ELSE 0

\* The size of the entry files of c other than those in 'gone'.
RemainingSize(c, gone) ==
    LET size(k) == IF c.files[k].exists /\ k \notin gone THEN c.files[k].size ELSE 0
    IN  size("k1") + size("k2")

\* C21: a cleanup evicts cache entries least recently accessed first and stops
\* once the remaining entries are at or below 60% of the maximum: nothing but
\* an entry is evicted, no entry is evicted while a less recently accessed one
\* remains, and none once the size of the remaining entries is at the target.
C21_LruEviction ==
    cache_call.cleaned.ran =>
       \A i \in 1..Len(Evicted) :
          LET gone == {Evicted[j] : j \in 1..(i - 1)}
              c == cache_call.cleaned.c
          IN /\ Evicted[i] \in CacheKeys
             /\ \A k \in CacheKeys :
                   (c.files[k].exists /\ AccessRank(c, k) < AccessRank(c, Evicted[i]))
                      => k \in gone
             /\ RemainingSize(c, gone) * 10 > max_cache_size_mb * 6

\* The part of C21 that holds: among the entries, eviction goes by access
\* time, the least recently accessed first.
C21_OldestEntryFirst ==
    cache_call.cleaned.ran =>
       \A i \in 1..Len(Evicted) :
          \A k \in CacheKeys :
             (/\ Evicted[i] \in CacheKeys
              /\ cache_call.cleaned.c.files[k].exists
              /\ AccessRank(cache_call.cleaned.c, k)
                   < AccessRank(cache_call.cleaned.c, Evicted[i]))
                => k \in {Evicted[j] : j \in 1..(i - 1)}

\* An entry was evicted although the entries together were within the target:
\* the recorded size had counted a key that was set again twice.
C21_EvictedBelowTarget ==
    /\ cache_call.op = "set"
    /\ cache_call.cleaned.ran
    /\ Evicted = <<cache_call.key>>
    /\ RemainingSize(cache_call.cleaned.c, {}) * 10 <= max_cache_size_mb * 6

\* C29: eviction, by a set that passes the threshold or by optimize_cache,
\* deletes cache entry files only: cache_stats.json is never deleted by it and
\* never counted as an entry in the statistics.
C29_StatsFileNotEvicted ==
    cache_call.cleaned.ran => \A i \in 1..Len(Evicted) : Evicted[i] # StatsKey

\* A set started a cleanup that deleted cache_stats.json, and the file is gone.
C29_StatsFileDeleted ==
    /\ cache_call.op = "set"
    /\ cache_call.cleaned.ran
    /\ Len(Evicted) > 0 /\ Evicted[1] = StatsKey
    /\ ~cache.files[StatsKey].exists

\* C30: from an empty cache directory, after every sequence of operations
\* stats.total_entries is the number of keys that have a cache file and
\* stats.total_size_mb is the summed size of those files.
C30_StatsAccurate ==
    /\ cache.stats.total_entries = Cardinality({k \in CacheKeys : cache.files[k].exists})
    /\ cache.stats.total_size_mb = EntryFilesSize(cache)

\* The same key was set twice in a row, both writes succeeded, no cleanup ran,
\* and the statistics count two entries for the one file.
C30_SameKeyCountedTwice ==
    /\ cache_call.op = "set" /\ cache_call.after_set /\ ~cache_call.cleaned.ran
    /\ cache.stats.total_entries = 2
    /\ Cardinality({k \in CacheKeys : cache.files[k].exists}) = 1

(***************************************************************************)
(* C28: consistency of a health report (checked under SpecHealth)          *)
(***************************************************************************)
AlertLevels == {health_report.alerts[i][1] : i \in 1..Len(health_report.alerts)}

\* C28: in every report of check_ocr_health, an alert of level critical comes
\* with the status critical, any alert comes with a status other than healthy,
\* and the status healthy comes with an empty list of alerts.
C28_ReportConsistent ==
    health_report # NoReport =>
       /\ "critical" \in AlertLevels => health_report.status = "critical"
       /\ health_report.alerts # <<>> => health_report.status # "healthy"
       /\ health_report.status = "healthy" => health_report.alerts = <<>>

\* The part of C28 that holds: alerts and the status healthy exclude each other.
C28_HealthyMeansNoAlert ==
    health_report # NoReport =>
       (health_report.status = "healthy" <=> health_report.alerts = <<>>)

\* A report with a critical alert about the overall success rate whose status
\* is warning: fewer than 30% of all operations succeeded, but 30% or more of
\* the 10 most recent ones did.
C28_CriticalAlertWithWarning ==
    /\ health_report # NoReport
    /\ health_report.status = "warning"
    /\ health_report.alerts[1] = <<"critical", "success_rate">>

(***************************************************************************)
(* C26: validation against repair (checked under SpecValidator)            *)
(***************************************************************************)
\* The latest fix_config_issues was given the mapping the latest validation
\* had read from the file.
FixedWhatWasValidated ==
    /\ ValidatedMapping
    /\ fix_call.called
    /\ fix_call.input = validate_call.result.config

HasIssue(field) ==
    \E i \in 1..Len(validate_call.result.issues) :
       validate_call.result.issues[i].field = field

\* C26: validation and repair agree: fix_config_issues changes a field only
\* when validation reports an issue for that field, so a mapping that
\* validation finds valid is returned unchanged.
C26_ValidationAndRepairAgree ==
    FixedWhatWasValidated =>
       /\ \A field \in Fields :
             fix_call.output[field] # fix_call.input[field] => HasIssue(field)
       /\ validate_call.result.valid => fix_call.output = fix_call.input

\* The part of C26 that holds: the fields other than gpu_memory_limit are
\* changed only when validation reports an issue for them.
C26_OtherFieldsAgree ==
    FixedWhatWasValidated =>
       \A field \in Fields \ {"gpu_memory_limit"} :
          fix_call.output[field] # fix_call.input[field] => HasIssue(field)

\* A mapping with gpu_memory_limit = 100 was found valid, and repair raised
\* the limit to 512.
C26_ValidButRepaired ==
    /\ FixedWhatWasValidated
    /\ validate_call.result.valid
    /\ fix_call.input["gpu_memory_limit"] = IntValue(100)
    /\ fix_call.output["gpu_memory_limit"] = IntValue(512)

(***************************************************************************)
(* C25: ConfigManager.update_config (checked under SpecManager)            *)
(***************************************************************************)
\* C25: update_config is all-or-nothing for the cached configuration: when it
\* returns False because the save failed, the configuration that load_config
\* and get_config give afterwards is the one from before the update.
C25_UpdateAllOrNothing ==
    (update_call.called /\ ~update_call.ok) => update_call.after = update_call.before

\* The part of C25 that holds: after an update that returned True the cached
\* configuration is the updated one.
C25_SuccessfulUpdateIsCached ==
    (update_call.called /\ update_call.ok) =>
       /\ update_call.after.clahe.clip_limit \in SettingValues
       /\ \A section \in {"clahe", "waifu2x"} :
             update_call.after[section] # update_call.before[section] =>
                update_call.after[CHOOSE other \in {"clahe", "waifu2x"} : other # section]
                   = update_call.before[CHOOSE other \in {"clahe", "waifu2x"} : other # section]

\* An update whose save failed left the cached configuration changed, while
\* the file still holds the configuration from before.
C25_FailedUpdateKept ==
    /\ update_call.called /\ ~update_call.ok
    /\ update_call.after # update_call.before
    /\ _config = update_call.after
    /\ config_file = [kind |-> "saved", config |-> update_call.before]

(***************************************************************************)
(* C22: PaddleOCR construction and the circuit breaker (SpecEngines)       *)
(***************************************************************************)
\* An OCR call took the paddle route, asked _get_paddle_ocr for the engine
\* and got none that works.
AskedForEngine ==
    /\ ocr_call.op = "_ocr_image"
    /\ \/ ocr_call.paddle = "lost"
       \/ ocr_call.paddle = "error" /\ ocr_call.msg = NotInitialised

\* C22: PaddleOCR construction goes through the instance's circuit breaker
\* (threshold 3, recovery 30 s), so that three failed constructions open it
\* and later attempts are short-circuited: an OCR call that asked for the
\* engine where paddleocr is installed and no engine existed has either
\* constructed the engine or left a failure counted by the breaker, unless
\* the breaker was open.
C22_ConstructionThroughBreaker ==
    (AskedForEngine /\ paddleocr_available /\ ocr_call.before._paddle_ocr = NoEngine) =>
        \/ engines._paddle_ocr # NoEngine
        \/ engines.circuit_breaker.failure_count > 0
        \/ engines.circuit_breaker.state = "OPEN"

\* What the code does: no PaddleOCR engine is ever constructed and the
\* instance's breaker stays as __init__ built it.
C22_BreakerNeverUsed ==
    /\ engines._paddle_ocr = NoEngine
    /\ engines.circuit_breaker = NewOcrBreaker

\* An OCR call asked for the engine where paddleocr is installed; none was
\* constructed, the breaker counted nothing and the instance is still in
\* paddle mode.
C22_AskedBreakerUntouched ==
    /\ AskedForEngine /\ paddleocr_available
    /\ lifetime.paddle_failed
    /\ ocr_call.before._ocr_engine = "paddle"
    /\ engines._ocr_engine = "paddle"
    /\ engines._paddle_ocr = NoEngine
    /\ engines.circuit_breaker.failure_count = 0
    /\ engines.circuit_breaker.state = "CLOSED"

(***************************************************************************)
(* C23: the selected-page set and the check boxes (checked under SpecPages)*)
(***************************************************************************)
\* The page numbers whose check box is shown ticked.
TickedPages == {page_thumbnails[k].page : k \in {j \in 1..Len(page_thumbnails) :
                                                    page_thumbnails[j].var}}

\* C23: under every interleaving of loads, queued thumbnail callbacks (failed
\* and stale ones included) and check-box, select-all, deselect-all and
\* invert actions, the selected-page set holds only valid page indices of the
\* open document, and index i is in it exactly when the check box shown for
\* page i is ticked.
C23_SelectionMatchesCheckboxes ==
    /\ selected_pages \subseteq 0..(Len(pdf_document) - 1)
    /\ selected_pages = TickedPages

\* Select-all after a thumbnail that failed to render: page 0 has no check
\* box, the box of page 1 is ticked, and the set holds 0 instead of 1.
C23_SelectedWithoutCheckbox ==
    /\ Len(page_thumbnails) = 1
    /\ page_thumbnails[1] = [page |-> 1, var |-> TRUE]
    /\ selected_pages = {0}

\* The set holds an index that is no page of the open document.
C23_InvalidIndexSelected ==
    \E i \in selected_pages : i >= Len(pdf_document)

(***************************************************************************)
(* C24: unload_plugin (checked under SpecLoader)                           *)
(***************************************************************************)
\* The name was unloaded successfully and has not been loaded since.
Unloaded(n) ==
    /\ unload_call.called /\ unload_call.ok /\ unload_call.converter_name = n
    /\ loaded_plugins[n] = NoClass

\* C24: after unload_plugin(name) returned True the converter is released
\* everywhere load_plugin registered it: until it is loaded again neither the
\* plugin manager nor the converter factory resolves the name or holds an
\* instance of it.
C24_UnloadReleasesEverywhere ==
    \A n \in ConverterNames :
        Unloaded(n) =>
            /\ plugin_instances[n] = NoInstance
            /\ ~DictHas(_converters, n)
            /\ ~DictHas(_metadata, n)
            /\ _instances[n] = NoInstance

\* What unload_plugin does release: the plugin manager's own registration
\* and instance.
C24_PluginManagerReleases ==
    /\ \A n \in ConverterNames :
          plugin_instances[n] # NoInstance => loaded_plugins[n] # NoClass
    /\ \A n \in ConverterNames : Unloaded(n) => plugin_instances[n] = NoInstance

\* The factory handed out an instance of a converter that was unloaded
\* before the request.
C24_FactoryServesUnloaded ==
    /\ got.kind = "name"
    /\ Unloaded(got.name)
    /\ got.prev = NoInstance
    /\ got.result # NoInstance

(***************************************************************************)
(* C27: the styled Word-to-PPT engine (checked under SpecSlides)           *)
(***************************************************************************)
RECURSIVE Concat(_)
Concat(seqs) == IF seqs = <<>> THEN <<>> ELSE Head(seqs) \o Concat(Tail(seqs))

\* The paragraph numbers of the body blocks shown on the slides, slide by
\* slide, and those of the body paragraphs of the document, in order.
ShownParagraphs ==
    LET shown == SelectSeq(Concat([i \in 1..Len(slides) |-> slides[i].content]),
                           LAMBDA block : block.type = "paragraph")
    IN  [i \in 1..Len(shown) |-> shown[i].text]
BodyParagraphs ==
    LET body == SelectSeq(_extract_content_from_word(paragraphs),
                          LAMBDA block : block.type = "paragraph")
    IN  [i \in 1..Len(body) |-> body[i].text]
FirstBlockIsTitle ==
    LET blocks == _extract_content_from_word(paragraphs)
    IN  blocks # <<>> /\ blocks[1].type = "heading" /\ blocks[1].level = 1

\* C27: the styled engine loses no content: every non-heading block of the
\* document is on exactly one slide of the presentation, in document order,
\* also when blocks come before the first level-1 heading or the document
\* has no level-1 heading.
C27_NoContentLost ==
    ppt_pc = "done" => ShownParagraphs = BodyParagraphs

\* What the code does guarantee: a document that starts with a level-1
\* heading keeps all its body paragraphs, once each and in order.
C27_AfterFirstTitle ==
    (ppt_pc = "done" /\ FirstBlockIsTitle) => ShownParagraphs = BodyParagraphs

\* A document without a level-1 heading whose paragraphs fit on one slide
\* becomes the fallback slide only.
C27_OnlyFallbackSlide ==
    /\ ppt_pc = "done"
    /\ Len(BodyParagraphs) = 2
    /\ slides = <<[title |-> FallbackTitle, content |-> <<>>]>>

\* A paragraph in front of the first level-1 heading is on no slide, the
\* one after it is.
C27_LostBeforeFirstTitle ==
    /\ ppt_pc = "done"
    /\ Len(BodyParagraphs) = 2
    /\ ShownParagraphs = <<BodyParagraphs[2]>>
    /\ Len(slides) = 1 /\ slides[1].title.kind = "heading"

====
